---- MODULE Spec2Model ----
(***************************************************************************)
(* Model of the ServiceTitan JSON -> BigQuery loader                        *)
(* (json2bq-job/servicetitan_common.py, servicetitan_all_json_to_bq.py,     *)
(* servicetitan_json_to_bq.py).                                             *)
(*                                                                         *)
(* Three specifications share this module:                                  *)
(*   Spec         one (tenant, endpoint) pair processed over several runs,  *)
(*                with the staging and the destination table (schema and    *)
(*                rows) and the merge / reactive-correction paths.          *)
(*   SpecLoop     the control flow of main() and process_company() over     *)
(*                tenants and endpoints, every external call being able to  *)
(*                raise.                                                    *)
(*   SpecReshape  fix_json_format / fix_json_format_streaming /             *)
(*                transform_item as functions of an input file.             *)
(***************************************************************************)
EXTENDS Integers, Sequences, FiniteSets, Bags, TLC

NULL == "NULL"

\* ------------------------------------------------------------------------
\* Bounds of the model
\* ------------------------------------------------------------------------
\* number of times the same (tenant, endpoint) pair is processed
MaxRuns == 2

\* number of tenants assigned to the process
NTenants == 2

\* number of entries of ENDPOINTS
NEndpoints == 2

\* number of records of the longest source file
MaxRecords == 1001

\* largest number of tenants the companies query returns
MaxTotal == 4

\* largest CLOUD_RUN_TASK_COUNT
MaxTasks == 3

\* largest number of top-level objects of a file given as text
MaxObjects == 3

\* largest chunk_size of the streaming array loop, in characters
MaxChunk == 5

\* ------------------------------------------------------------------------
\* Schemas (bigquery.SchemaField): a schema is a sequence of fields, a
\* field has a name, a type, a mode and, for a STRUCT, a sequence of
\* sub-fields.
\* ------------------------------------------------------------------------
SubField(n, t) == [name |-> n, field_type |-> t]

SchemaField(n, t, m, fs) == [name |-> n, field_type |-> t, mode |-> m, fields |-> fs]

Scalar(n, t) == SchemaField(n, t, "NULLABLE", <<>>)

Struct(n, fs) == SchemaField(n, "STRUCT", "NULLABLE", fs)

\* name.startswith('_etl_')
IsEtl(n) == n \in {"_etl_synced", "_etl_operation"}

\* the two bookkeeping fields as created with the destination table
campos_etl ==
    << SchemaField("_etl_synced", "TIMESTAMP", "REQUIRED", <<>>),
       SchemaField("_etl_operation", "STRING", "REQUIRED", <<>>) >>

Range(s) == {s[i] : i \in DOMAIN s}

Names(schema) == {schema[i].name : i \in DOMAIN schema}

HasField(schema, n) == \E i \in DOMAIN schema : schema[i].name = n

\* the first field of that name (the loops "for field in schema: if
\* field.name == x: ...; break")
FieldOf(schema, n) == schema[CHOOSE i \in DOMAIN schema :
                               /\ schema[i].name = n
                               /\ \A j \in DOMAIN schema : schema[j].name = n => i <= j]

\* {col.name for col in schema if col.name != 'id' and not col.name.startswith('_etl_')}
staging_cols(schema) == {n \in Names(schema) : n # "id" /\ ~IsEtl(n)}

SubNames(field) == {field.fields[i].name : i \in DOMAIN field.fields}

\* the data columns a row can carry a value for
DataCols == {"a", "s"}

\* ------------------------------------------------------------------------
\* Inputs: what BigQuery auto-detects from the reshaped file (the staging
\* schema) and the records of the file (the staging rows).  A staging row
\* [id, v] carries the value v in each of its non-id columns.
\* ------------------------------------------------------------------------
IdField == Scalar("id", "INTEGER")

StagingSchemas ==
    { << IdField, Scalar("a", "INTEGER") >>,
      << IdField, Scalar("a", "STRING"),
         Struct("s", << SubField("x", "INTEGER") >>) >>,
      << IdField, Struct("s", << SubField("x", "STRING"), SubField("y", "INTEGER") >>) >>,
      << IdField, Scalar("a", "STRING"), Scalar("s", "STRING") >>,
      << IdField, Scalar("a", "INTEGER"), Scalar("s", "INTEGER") >> }

Vals == {"v1", "v2"}

StagingRow(i, v) == [id |-> i, v |-> v]

Snapshots ==
    { {StagingRow(1, "v1"), StagingRow(2, "v1")},
      {StagingRow(2, "v2"), StagingRow(3, "v2")},
      {StagingRow(1, "v2")},
      {StagingRow(1, "v1"), StagingRow(1, "v2")} }

Ids(rows) == {r.id : r \in rows}

\* ------------------------------------------------------------------------
\* The warehouse statements the loader issues
\* ------------------------------------------------------------------------
\* a destination row
Row(i, d, op, ts) == [id |-> i, data |-> d, op |-> op, synced |-> ts]

\* the values a staging row gives to the destination columns: the columns
\* of the INSERT list, NULL for the others
InsertData(s, cols) == [c \in DataCols |-> IF c \in cols THEN s.v ELSE NULL]

\* MERGE whose WHEN MATCHED branch stamps the row but assigns no column
MergeRows_KeepValues(T, S, cols, now) ==
    {IF \E s \in S : s.id = t.id
        THEN Row(t.id, t.data, "UPDATE", now)
        ELSE Row(t.id, t.data, "DELETE", now) : t \in T}
    \cup {Row(s.id, InsertData(s, cols), "INSERT", now) :
             s \in {x \in S : \A t \in T : t.id # x.id}}

\* MERGE whose WHEN MATCHED branch stamps the row as an insert
MergeRows_StampInsert(T, S, cols, now) ==
    {IF \E s \in S : s.id = t.id
        THEN Row(t.id,
                 [c \in DataCols |-> IF c \in cols
                                     THEN (CHOOSE x \in S : x.id = t.id).v ELSE t.data[c]],
                 "INSERT", now)
        ELSE Row(t.id, t.data, "DELETE", now) : t \in T}
    \cup {Row(s.id, InsertData(s, cols), "INSERT", now) :
             s \in {x \in S : \A t \in T : t.id # x.id}}

\* MERGE whose WHEN NOT MATCHED BY SOURCE branch is a DELETE
MergeRows_HardDelete(T, S, cols, now) ==
    {Row(t.id,
         [c \in DataCols |-> IF c \in cols
                             THEN (CHOOSE x \in S : x.id = t.id).v ELSE t.data[c]],
         "UPDATE", now) : t \in {x \in T : \E y \in S : y.id = x.id}}
    \cup {Row(s.id, InsertData(s, cols), "INSERT", now) :
             s \in {x \in S : \A t \in T : t.id # x.id}}

\* MERGE ... ON T.id = S.id (servicetitan_common.py 1168-1186 and
\* servicetitan_all_json_to_bq.py 374-392), executed as one statement:
\*   WHEN MATCHED THEN UPDATE SET T.col = S.col (col in staging_cols),
\*        _etl_synced = now, _etl_operation = 'UPDATE'
\*   WHEN NOT MATCHED THEN INSERT (staging columns, now, 'INSERT')
\*   WHEN NOT MATCHED BY SOURCE THEN UPDATE SET _etl_synced = now,
\*        _etl_operation = 'DELETE'
MergeRows(T, S, cols, now) ==
    LET matched(t) == {s \in S : s.id = t.id}
        upd(t) == LET s == CHOOSE x \in matched(t) : TRUE
                  IN  Row(t.id,
                          [c \in DataCols |-> IF c \in cols THEN s.v ELSE t.data[c]],
                          "UPDATE", now)
        del(t) == Row(t.id, t.data, "DELETE", now)
    IN  {IF matched(t) # {} THEN upd(t) ELSE del(t) : t \in T}
        \cup {Row(s.id, InsertData(s, cols), "INSERT", now) :
                 s \in {x \in S : \A t \in T : t.id # x.id}}

\* a MERGE fails when a target row matches more than one source row
MergeMatchesOnce(T, S) ==
    \A t \in T : Cardinality({s \in S : s.id = t.id}) <= 1

\* INSERT that stamps the rows as updates
BulkInsert_StampUpdate(T, S, cols, now) ==
    T \cup {Row(s.id, InsertData(s, cols), "UPDATE", now) : s \in S}

\* INSERT INTO final (staging columns, _etl_synced, _etl_operation)
\* SELECT S.*, CURRENT_TIMESTAMP(), 'INSERT' FROM staging S
\* (servicetitan_common.py 1116-1128)
BulkInsert(T, S, cols, now) ==
    T \cup {Row(s.id, InsertData(s, cols), "INSERT", now) : s \in S}

\* copy_table(staging, final, WRITE_TRUNCATE): the destination becomes a
\* copy of staging, which has no bookkeeping columns
CopyRows(S, cols) == {Row(s.id, InsertData(s, cols), NULL, 0) : s \in S}

\* a backfill that stamps no row
BackfillEtl_None(T, now) == T

\* UPDATE final SET _etl_synced = now, _etl_operation = 'INSERT'
\* WHERE _etl_synced IS NULL
BackfillEtl(T, now) ==
    {IF t.synced = 0 THEN Row(t.id, t.data, "INSERT", now) ELSE t : t \in T}

\* ------------------------------------------------------------------------
\* Schema changes
\* ------------------------------------------------------------------------
\* ALTER TABLE ... ADD COLUMN IF NOT EXISTS <field>: the column is appended
\* to the table's schema
AddColumn(schema, field) ==
    IF HasField(schema, field.name) THEN schema ELSE Append(schema, field)

MapSeq(s, Op(_)) == [i \in DOMAIN s |-> Op(s[i])]

\* merged_fields (servicetitan_all_json_to_bq.py 455-471 and 781-795): every
\* sub-field of the destination, staging's definition when staging has it
\* too, then staging's sub-fields the destination does not have
merged_fields(old_fields, new_fields) ==
    LET old_names == {old_fields[i].name : i \in DOMAIN old_fields}
        new_names == {new_fields[i].name : i \in DOMAIN new_fields}
        new_of(n) == new_fields[CHOOSE i \in DOMAIN new_fields : new_fields[i].name = n]
        kept(f) == IF f.name \in new_names THEN new_of(f.name) ELSE f
    IN  MapSeq(old_fields, kept)
        \o SelectSeq(new_fields, LAMBDA f : f.name \notin old_names)

\* merged_struct_field of the composite-incompatibility path
\* (servicetitan_all_json_to_bq.py 453-492)
merged_struct_field(old, new) ==
    IF old.fields # <<>> /\ new.fields # <<>>
    THEN IF old.mode = "REPEATED" \/ new.mode = "REPEATED"
         THEN SchemaField(old.name, "RECORD", "REPEATED",
                          merged_fields(old.fields, new.fields))
         ELSE SchemaField(old.name, old.field_type, old.mode,
                          merged_fields(old.fields, new.fields))
    ELSE new

\* merged_struct_field of the missing-field path
\* (servicetitan_all_json_to_bq.py 781-804)
fused_struct_field(old, new) ==
    SchemaField(old.name, "STRUCT", old.mode, merged_fields(old.fields, new.fields))

\* updated_schema + etl_fields (servicetitan_all_json_to_bq.py 495-504,
\* 659-668, 807-815): the named field replaced, the other data fields kept,
\* the bookkeeping fields moved to the end
updated_schema(schema, n, field) ==
    MapSeq(SelectSeq(schema, LAMBDA f : f.name = n \/ ~IsEtl(f.name)),
           LAMBDA f : IF f.name = n THEN field ELSE f)
    \o SelectSeq(schema, LAMBDA f : f.name # n /\ IsEtl(f.name))

\* the schema align_schemas_before_merge builds for one incompatible field
\* (servicetitan_common.py 751-757): the field replaced in place
aligned_schema(schema, n, field) ==
    MapSeq(schema, LAMBDA f : IF f.name = n THEN field ELSE f)

\* incompatible_fields of align_schemas_before_merge
\* (servicetitan_common.py 698-718) for which an update is attempted (739):
\* the non-ETL staging fields, in staging order, whose type differs from the
\* destination's and is not STRUCT
incompatible_fields(s_schema, f_schema) ==
    SelectSeq(s_schema,
              LAMBDA f : /\ ~IsEtl(f.name)
                         /\ \E i \in DOMAIN f_schema :
                               /\ f_schema[i].name = f.name
                               /\ ~IsEtl(f_schema[i].name)
                         /\ f.field_type # FieldOf(f_schema, f.name).field_type
                         /\ f.field_type # "STRUCT")

\* a correction that declares every data field a NULLABLE STRING
corrected_load_schema_AllString(schema, n) ==
    MapSeq(IF HasField(schema, n) THEN schema ELSE Append(schema, Scalar(n, "STRING")),
           LAMBDA f : IF f.name = "id" THEN f ELSE Scalar(f.name, "STRING"))

\* the load-time type correction (servicetitan_common.py 1013-1034): the
\* named field becomes a NULLABLE STRING, appended when it is not there
corrected_load_schema(schema, n) ==
    IF HasField(schema, n)
    THEN MapSeq(schema, LAMBDA f : IF f.name = n THEN Scalar(n, "STRING") ELSE f)
    ELSE Append(schema, Scalar(n, "STRING"))

\* ------------------------------------------------------------------------
\* What the warehouse answers to the merge statement.  An error names a
\* class and a field:
\*   struct   "Value of type ... cannot be assigned to T.f, which has type
\*            STRUCT<...>"  (also ARRAY<STRUCT<...>>)
\*   type     "Value of type X cannot be assigned to T.f, which has type Y"
\*   missing  "Field f.x is missing in new schema"
\*   other    any text the loader does not recognise
\* ------------------------------------------------------------------------
MergeError(c, f) == [class |-> c, field |-> f]

OtherError == MergeError("other", NULL)

IsStructType(t) == t \in {"STRUCT", "RECORD"}

\* the errors the statement can raise for the column n
ColumnErrors(s_schema, f_schema, n) ==
    IF ~HasField(f_schema, n) THEN {OtherError}
    ELSE LET sf == FieldOf(s_schema, n)
             ff == FieldOf(f_schema, n)
         IN  IF sf.field_type = ff.field_type /\ sf.fields = ff.fields THEN {}
             ELSE IF IsStructType(ff.field_type)
                  THEN {MergeError("struct", n)}
                       \cup (IF IsStructType(sf.field_type) /\ SubNames(ff) \ SubNames(sf) # {}
                             THEN {MergeError("missing", n)} ELSE {})
             ELSE IF IsStructType(sf.field_type) THEN {OtherError}
             ELSE {MergeError("type", n)}

\* the schema errors of the statement built from the staging schema
SchemaErrors(s_schema, f_schema) ==
    UNION {ColumnErrors(s_schema, f_schema, n) : n \in staging_cols(s_schema)}
    \cup (IF HasField(f_schema, "_etl_synced") /\ HasField(f_schema, "_etl_operation")
          THEN {} ELSE {OtherError})

\* ------------------------------------------------------------------------
\* State
\* ------------------------------------------------------------------------
VARIABLES
    \* --- Spec: one (tenant, endpoint) pair ---
    run,            \* number of the current run; CURRENT_TIMESTAMP() of it
    entry,          \* "all": servicetitan_all_json_to_bq.process_company
                    \* "single": servicetitan_json_to_bq.process_company
    pc,             \* position in the body of the endpoint loop
    src,            \* the reshaped file: the schema BigQuery detects, the rows
    staging_table,  \* staging.<table>
    final_table,    \* bronze.<table>
    load_attempts,  \* full-file load jobs started in this run
    merge_attempts, \* executions of the merge statement in this run
    load_errs,      \* error class of each failed load job of this run
    load_result,    \* (success, error_message) returned by the staging load
    align_result,   \* (corrections_made, error_message is not None)
                    \* returned by align_schemas_before_merge
    prev_run,       \* the outcome of the previous processing of the pair
                    \* and, when it succeeded, its file and the destination
                    \* it left
    merge_errs,     \* error class of each failed merge of this run
    err,            \* the merge error being handled
    outcome,        \* "none", "ok", "failed" (logged, next endpoint) or
                    \* "raised" (exception left process_company)
    pre_table,      \* the destination as the last data statement found it
    last_stmt,      \* the last data statement that succeeded in this run
    \* --- SpecLoop: main() over the tenants and their endpoints ---
    tenant,         \* idx of "for idx, row in enumerate(results, 1)"
    endpoint,       \* position in ENDPOINTS of the endpoint in progress
    stage,          \* position in main() / in the body of the endpoint loop
    elapsed,        \* time.time() - start_time, in seconds
    attempted,      \* the (tenant, endpoint) pairs whose iteration started
    logged,         \* the (tenant, endpoint) pairs with a failure printed/logged
    audit,          \* logs.etl_servicetitan: the pairs whose event was inserted
                    \* (rows) and those whose insert went wrong (faults)
    exc,            \* the exception propagating out of process_company
    procesadas,     \* tenants process_company returned for
    run_end,        \* how main() ended
    \* --- SpecReshape: fix_json_format on one source file ---
    file,           \* the source file: framing, records, what the first
                    \* chunk holds, the repeated_fields argument
    rpc,            \* position in the reshape of the file
    repeated_fields_mem,    \* repeated_fields of the in-memory path
    repeated_fields_stream, \* repeated_fields of the streaming path
    out_mem,        \* the lines the in-memory path wrote
    out_stream,     \* the lines the streaming path wrote
    raised,         \* per path: an exception left fix_json_format
    \* --- SpecTasks: the tasks of one parallel job execution ---
    task_count,     \* CLOUD_RUN_TASK_COUNT; 0 before the job is started
    total,          \* len(results): the tenants the companies query returns
    tasks,          \* per task_index: position, start_idx, end_idx, the
                    \* tenant in progress and the staging operation reached
    addressed,      \* per tenant: the tasks that addressed its staging table
    \* --- SpecDecode: one call of fix_json_format on the text of a file ---
    dec             \* the file (text, size, chunk size), the path and the
                    \* framing decided, and the locals of the streaming
                    \* array loop: position in the file, buffer, items written

loaderVars == << run, entry, pc, src, staging_table, final_table, load_attempts,
                 merge_attempts, load_errs, load_result, merge_errs, err, outcome, pre_table,
                 last_stmt, prev_run, align_result >>

loopVars == << tenant, endpoint, stage, elapsed, attempted, logged, audit, exc,
               procesadas, run_end >>

reshapeVars == << file, rpc, repeated_fields_mem, repeated_fields_stream,
                  out_mem, out_stream, raised >>

taskVars == << task_count, total, tasks, addressed >>

vars == << loaderVars, loopVars, reshapeVars, taskVars, dec >>

Table(sch, rows) == [exists |-> TRUE, schema |-> sch, rows |-> rows]

NoTable == [exists |-> FALSE, schema |-> <<>>, rows |-> {}]

NoSrc == [schema |-> <<>>, rows |-> {}, current_schema |-> <<>>]

\* what align_schemas_before_merge returns: the names in corrections_made,
\* and whether error_message is set
Corrections(made, failed) == [corrections_made |-> made, error |-> failed]

\* what a processing of the pair ended with
Processed(file_read, errs, f_table, how) ==
    [src |-> file_read, load_errs |-> errs, final_table |-> f_table, outcome |-> how]

NoErr == MergeError("none", NULL)

\* the destination before the first run of the model: absent, or as an
\* earlier run's fallback leaves it when the copy has replaced it by staging
\* and the bookkeeping columns could not be re-added
\* (servicetitan_all_json_to_bq.py 529-570, 602-619)
InitialDestinations ==
    { NoTable,
      Table(<< IdField, Scalar("a", "STRING"), Scalar("s", "STRING") >>,
            CopyRows({StagingRow(1, "v1"), StagingRow(2, "v1")}, {"a", "s"})) }

\* the tuple load_json_to_staging_with_error_handling returns: (True, t,
\* None) or (False, t, message).  The messages: error_msg of the first load
\* job (servicetitan_common.py 882, 921, 1071), "Error corrigiendo esquema:
\* <error of the correction or of the retry>" (1057), and the two fixed
\* texts of the branches that make no correction (1063, 1067)
LoadResult(ok, msg) == [returned |-> TRUE, success |-> ok, error_message |-> msg]

NoResult == [returned |-> FALSE, success |-> FALSE, error_message |-> "None"]

FirstError == "error_msg of the first load job"

CorrectionError == "Error corrigiendo esquema: error of the correction or of the retry"

\* the message returned for a first load that failed with the class c
\* without a correction being attempted
UncorrectedMessage(c) ==
    CASE c = "repeated" -> "Campo REPEATED tiene valores NULL. Se requiere limpieza de datos."
      [] c = "nested" -> "Campo anidado tiene tipo incorrecto. Se requiere limpieza de datos."
      [] OTHER -> FirstError

InitLoader ==
    /\ run = 0
    /\ entry = "all"
    /\ pc = "idle"
    /\ src = NoSrc
    /\ staging_table = NoTable
    /\ final_table \in InitialDestinations
    /\ load_attempts = 0
    /\ merge_attempts = 0
    /\ load_errs = <<>>
    /\ load_result = NoResult
    /\ prev_run = Processed(NoSrc, << >>, NoTable, "none")
    /\ align_result = Corrections(<< >>, FALSE)
    /\ merge_errs = <<>>
    /\ err = NoErr
    /\ outcome = "none"
    /\ pre_table = NoTable
    /\ last_stmt = "none"

\* the endpoint ends: logged and `continue` ("failed"), success ("ok"), or an
\* exception no handler of process_company catches ("raised")
Finish(o) ==
    /\ pc' = "done"
    /\ outcome' = o

\* ------------------------------------------------------------------------
\* The endpoint loop body up to the staging load
\* ------------------------------------------------------------------------
\* one iteration of "for endpoint_name, table_name in ENDPOINTS" starts
StartRun ==
    /\ pc \in {"idle", "done"}
    /\ run < MaxRuns
    /\ run' = run + 1
    /\ \E e \in {"all", "single"} : entry' = e
    /\ pc' = "download"
    /\ src' = NoSrc
    /\ load_attempts' = 0
    /\ merge_attempts' = 0
    /\ load_errs' = <<>>
    /\ load_result' = NoResult
    /\ align_result' = Corrections(<< >>, FALSE)
    /\ prev_run' = IF outcome = "ok"
                   THEN Processed(src, load_errs, final_table, outcome)
                   ELSE Processed(NoSrc, << >>, NoTable, outcome)
    /\ merge_errs' = <<>>
    /\ err' = NoErr
    /\ outcome' = "none"
    /\ pre_table' = NoTable
    /\ last_stmt' = "none"
    /\ UNCHANGED << staging_table, final_table >>
    /\ UNCHANGED << loopVars, reshapeVars, taskVars, dec >>

\* blob.exists() / download_to_filename, then fix_json_format
\* (servicetitan_all_json_to_bq.py 107-179): a missing file, a download
\* error and a reshape error are logged and the loop continues
Download ==
    /\ pc = "download"
    /\ \E ok \in BOOLEAN :
          IF ok THEN pc' = "clean" /\ UNCHANGED outcome
                ELSE Finish("failed")
    /\ UNCHANGED << align_result, prev_run, run, entry, src, staging_table, final_table, load_attempts,
                    merge_attempts, load_errs, merge_errs, err, pre_table, last_stmt >>
    /\ UNCHANGED load_result
    /\ UNCHANGED << loopVars, reshapeVars, taskVars, dec >>

\* get_dataset / create_dataset, then delete_table(staging, not_found_ok)
\* (servicetitan_all_json_to_bq.py 192-205); only NotFound is handled
CleanStaging ==
    /\ pc = "clean"
    /\ \E ok \in BOOLEAN :
          IF ok THEN /\ pc' = "load"
                     /\ staging_table' = NoTable
                     /\ UNCHANGED outcome
                ELSE /\ Finish("raised")
                     /\ UNCHANGED staging_table
    /\ UNCHANGED << align_result, prev_run, run, entry, src, final_table, load_attempts, merge_attempts,
                    load_errs, merge_errs, err, pre_table, last_stmt >>
    /\ UNCHANGED load_result
    /\ UNCHANGED << loopVars, reshapeVars, taskVars, dec >>

\* the error classes load_json_to_staging_with_error_handling tells apart
\* (servicetitan_common.py 926-969)
LoadErrorClasses == {"repeated", "nested", "type_mismatch", "other"}

\* current_schema of the type correction (servicetitan_common.py 978-1010):
\* detected from the first 50 lines of the file, which have the field n the
\* error names or do not have it
SampledSchemas(schema, n) == {schema, SelectSeq(schema, LAMBDA f : f.name # n)}

\* first load job (servicetitan_common.py 870-880) and the classification of
\* its error (881-971, 1058-1071): "repeated" and "nested" return the
\* failure, "type_mismatch" creates the staging table with the corrected
\* schema (1013-1044) and goes on to the retry
LoadFirst ==
    /\ pc = "load"
    /\ load_attempts' = load_attempts + 1
    /\ \E sch \in StagingSchemas, rows \in Snapshots :
         /\ \/ /\ staging_table' = Table(sch, rows)
               /\ src' = [schema |-> sch, rows |-> rows, current_schema |-> sch]
               /\ load_result' = LoadResult(TRUE, "None")
               /\ pc' = "ensure"
               /\ UNCHANGED << load_errs, outcome >>
            \/ \E c \in LoadErrorClasses :
                 /\ load_errs' = Append(load_errs, c)
                 /\ IF c = "type_mismatch"
                    THEN \E n \in staging_cols(sch), fixed \in BOOLEAN :
                           \E current \in SampledSchemas(sch, n) :
                             /\ src' = [schema |-> sch, rows |-> rows,
                                        current_schema |-> current]
                             /\ IF fixed
                                THEN /\ staging_table' =
                                          Table(corrected_load_schema(current, n), {})
                                     /\ pc' = "load_retry"
                                     /\ UNCHANGED << outcome, load_result >>
                                ELSE /\ Finish("failed")
                                     /\ load_result' = LoadResult(FALSE, CorrectionError)
                                     /\ UNCHANGED staging_table
                    ELSE /\ src' = [schema |-> sch, rows |-> rows, current_schema |-> sch]
                         /\ Finish("failed")
                         /\ load_result' = LoadResult(FALSE, UncorrectedMessage(c))
                         /\ UNCHANGED staging_table
    /\ UNCHANGED << align_result, prev_run, run, entry, final_table, merge_attempts, merge_errs, err,
                    pre_table, last_stmt >>
    /\ UNCHANGED << loopVars, reshapeVars, taskVars, dec >>

\* a retry that, failing, corrects and retries once more
LoadRetry_Again ==
    /\ pc = "load_retry"
    /\ load_attempts < 3
    /\ load_attempts' = load_attempts + 1
    /\ \/ /\ staging_table' = Table(staging_table.schema, src.rows)
          /\ load_result' = LoadResult(TRUE, "None")
          /\ pc' = "ensure"
          /\ UNCHANGED << load_errs, outcome >>
       \/ \E c \in LoadErrorClasses :
            /\ load_errs' = Append(load_errs, c)
            /\ UNCHANGED << pc, outcome, staging_table, load_result >>
    /\ UNCHANGED << align_result, prev_run, run, entry, src, final_table, merge_attempts, merge_errs, err,
                    pre_table, last_stmt >>
    /\ UNCHANGED << loopVars, reshapeVars, taskVars, dec >>

\* the retry with the explicit schema, in a loop body without the
\* "if not success: ... continue" after the load
LoadRetry_NoContinue ==
    /\ pc = "load_retry"
    /\ load_attempts' = load_attempts + 1
    /\ \/ /\ staging_table' = Table(staging_table.schema, src.rows)
          /\ load_result' = LoadResult(TRUE, "None")
          /\ UNCHANGED load_errs
       \/ \E c \in LoadErrorClasses :
            /\ load_errs' = Append(load_errs, c)
            /\ load_result' = LoadResult(FALSE, CorrectionError)
            /\ UNCHANGED staging_table
    /\ pc' = "ensure"
    /\ UNCHANGED << align_result, prev_run, run, entry, src, final_table, merge_attempts, merge_errs, err,
                    pre_table, last_stmt, outcome >>
    /\ UNCHANGED << loopVars, reshapeVars, taskVars, dec >>

\* the retry with the explicit schema (servicetitan_common.py 1046-1057)
LoadRetry ==
    /\ pc = "load_retry"
    /\ load_attempts' = load_attempts + 1
    /\ \/ /\ staging_table' = Table(staging_table.schema, src.rows)
          /\ load_result' = LoadResult(TRUE, "None")
          /\ pc' = "ensure"
          /\ UNCHANGED << load_errs, outcome >>
       \/ \E c \in LoadErrorClasses :
            /\ load_errs' = Append(load_errs, c)
            /\ load_result' = LoadResult(FALSE, CorrectionError)
            /\ Finish("failed")
            /\ UNCHANGED staging_table
    /\ UNCHANGED << align_result, prev_run, run, entry, src, final_table, merge_attempts, merge_errs, err,
                    pre_table, last_stmt >>
    /\ UNCHANGED << loopVars, reshapeVars, taskVars, dec >>

\* "Asegurar que la tabla final existe" (servicetitan_all_json_to_bq.py
\* 237-252, servicetitan_json_to_bq.py 231-243): created from the staging
\* schema plus campos_etl; only NotFound is handled
EnsureFinal ==
    /\ pc = "ensure"
    /\ \E ok \in BOOLEAN :
          IF ok
          THEN /\ final_table' = IF final_table.exists THEN final_table
                                 ELSE Table(staging_table.schema \o campos_etl, {})
               /\ pc' = IF entry = "all" THEN "new_cols" ELSE "align"
               /\ UNCHANGED outcome
          ELSE /\ Finish("raised")
               /\ UNCHANGED final_table
    /\ UNCHANGED << align_result, prev_run, run, entry, src, staging_table, load_attempts, merge_attempts,
                    load_errs, merge_errs, err, pre_table, last_stmt >>
    /\ UNCHANGED load_result
    /\ UNCHANGED << loopVars, reshapeVars, taskVars, dec >>

\* ------------------------------------------------------------------------
\* servicetitan_all_json_to_bq.process_company: pre-merge schema work
\* ------------------------------------------------------------------------
RECURSIVE AddColumns(_, _, _)
\* one ALTER TABLE ADD COLUMN per new staging field, in staging order
\* (servicetitan_all_json_to_bq.py 300-315); `added` are the statements that
\* succeed, a failing one is logged and skipped
AddColumns(schema, fields, added) ==
    IF fields = <<>> THEN schema
    ELSE AddColumns(IF Head(fields).name \in added
                    THEN AddColumn(schema, Head(fields)) ELSE schema,
                    Tail(fields), added)

\* new_cols = staging_cols - final_cols (servicetitan_all_json_to_bq.py 280-283)
new_cols(s_schema, f_schema) == staging_cols(s_schema) \ staging_cols(f_schema)

AddNewCols ==
    /\ pc = "new_cols"
    /\ \E added \in SUBSET new_cols(staging_table.schema, final_table.schema) :
          final_table' = [final_table EXCEPT
                            !.schema = AddColumns(@, staging_table.schema, added)]
    /\ pc' = "etl"
    /\ UNCHANGED << align_result, prev_run, run, entry, src, staging_table, load_attempts, merge_attempts,
                    load_errs, merge_errs, err, outcome, pre_table, last_stmt >>
    /\ UNCHANGED load_result
    /\ UNCHANGED << loopVars, reshapeVars, taskVars, dec >>

\* the bookkeeping columns an ALTER TABLE adds when they are absent
\* (servicetitan_all_json_to_bq.py 331-338 and 552-559), in that order
MissingEtl(schema) ==
    SelectSeq(<< Scalar("_etl_synced", "TIMESTAMP"), Scalar("_etl_operation", "STRING") >>,
              LAMBDA f : ~HasField(schema, f.name))

RECURSIVE AppendFirst(_, _, _)
\* the schema after the first k of the fields have been added
AppendFirst(schema, fields, k) ==
    IF k = 0 \/ fields = <<>> THEN schema
    ELSE AppendFirst(AddColumn(schema, Head(fields)), Tail(fields), k - 1)

\* a check that goes on to the merge when an addition has failed
EnsureEtl_MergeAnyway ==
    /\ pc = "etl"
    /\ LET missing == MissingEtl(final_table.schema)
       IN  \E k \in 0 .. Len(missing) :
              final_table' = [final_table EXCEPT !.schema = AppendFirst(@, missing, k)]
    /\ pc' = "merge"
    /\ UNCHANGED << align_result, prev_run, run, entry, src, staging_table, load_attempts, merge_attempts,
                    load_errs, merge_errs, err, outcome, pre_table, last_stmt >>
    /\ UNCHANGED load_result
    /\ UNCHANGED << loopVars, reshapeVars, taskVars, dec >>

\* "Asegurar que campos ETL existan antes de construir MERGE SQL"
\* (servicetitan_all_json_to_bq.py 323-364): k of the missing columns are
\* added before a statement fails; a failure ends the endpoint
EnsureEtl ==
    /\ pc = "etl"
    /\ LET missing == MissingEtl(final_table.schema)
       IN  \E k \in 0 .. Len(missing) :
              /\ final_table' = [final_table EXCEPT
                                   !.schema = AppendFirst(@, missing, k)]
              /\ IF k = Len(missing)
                 THEN pc' = "merge" /\ UNCHANGED outcome
                 ELSE Finish("failed")
    /\ UNCHANGED << align_result, prev_run, run, entry, src, staging_table, load_attempts, merge_attempts,
                    load_errs, merge_errs, err, pre_table, last_stmt >>
    /\ UNCHANGED load_result
    /\ UNCHANGED << loopVars, reshapeVars, taskVars, dec >>

\* ------------------------------------------------------------------------
\* The merge statement and the reactive path
\* ------------------------------------------------------------------------
\* the errors an execution of the merge statement can end with
MergeErrors(s_table, f_table) ==
    SchemaErrors(s_table.schema, f_table.schema) \cup {OtherError}

\* the statement can succeed
MergeCanSucceed(s_table, f_table) ==
    /\ SchemaErrors(s_table.schema, f_table.schema) = {}
    /\ MergeMatchesOnce(f_table.rows, s_table.rows)

\* the destination after the MERGE
Merged(s_table, f_table, now) ==
    [f_table EXCEPT !.rows = MergeRows(@, s_table.rows, staging_cols(s_table.schema), now)]

\* first execution of merge_sql (servicetitan_all_json_to_bq.py 394-409);
\* on success the endpoint is complete
Merge ==
    /\ pc = "merge"
    /\ merge_attempts' = merge_attempts + 1
    /\ pre_table' = final_table
    /\ \/ /\ MergeCanSucceed(staging_table, final_table)
          /\ final_table' = Merged(staging_table, final_table, run)
          /\ last_stmt' = "merge"
          /\ Finish("ok")
          /\ UNCHANGED << merge_errs, err >>
       \/ \E e \in MergeErrors(staging_table, final_table) :
            /\ err' = e
            /\ merge_errs' = Append(merge_errs, e.class)
            /\ pc' = "react"
            /\ UNCHANGED << final_table, last_stmt, outcome >>
    /\ UNCHANGED << align_result, prev_run, run, entry, src, staging_table, load_attempts, load_errs >>
    /\ UNCHANGED load_result
    /\ UNCHANGED << loopVars, reshapeVars, taskVars, dec >>

\* the schema the reactive path writes for the error, or <<>> when the
\* error is not one it corrects (servicetitan_all_json_to_bq.py 420-504,
\* 637-668, 747-815)
ReactiveSchema(e, s_schema, f_schema) ==
    IF e.class = "struct"
    THEN IF HasField(s_schema, e.field)
         THEN updated_schema(f_schema, e.field,
                  merged_struct_field(FieldOf(f_schema, e.field),
                                      FieldOf(s_schema, e.field)))
         ELSE <<>>
    ELSE IF e.class = "type"
    THEN IF HasField(s_schema, e.field)
         THEN updated_schema(f_schema, e.field, FieldOf(s_schema, e.field))
         ELSE <<>>
    ELSE IF e.class = "missing"
    THEN IF /\ HasField(s_schema, e.field) /\ HasField(f_schema, e.field)
            /\ FieldOf(s_schema, e.field).field_type = "STRUCT"
            /\ FieldOf(f_schema, e.field).field_type = "STRUCT"
         THEN updated_schema(f_schema, e.field,
                  fused_struct_field(FieldOf(f_schema, e.field),
                                     FieldOf(s_schema, e.field)))
         ELSE <<>>
    ELSE <<>>

\* what follows a successful schema correction: the composite
\* incompatibility goes to the bulk copy (529-541), the two others re-execute
\* merge_sql (690-693, 837-840)
AfterCorrection(e) == IF e.class = "struct" THEN "copy" ELSE "retry"

\* the except-branch of the first merge: classify, correct the destination
\* schema with update_table, which may be refused
React ==
    /\ pc = "react"
    /\ LET sch == ReactiveSchema(err, staging_table.schema, final_table.schema)
       IN  IF sch = <<>>
           THEN Finish("failed") /\ UNCHANGED final_table
           ELSE \E ok \in BOOLEAN :
                  IF ok
                  THEN /\ final_table' = [final_table EXCEPT !.schema = sch]
                       /\ pc' = AfterCorrection(err)
                       /\ UNCHANGED outcome
                  ELSE Finish("failed") /\ UNCHANGED final_table
    /\ UNCHANGED << align_result, prev_run, run, entry, src, staging_table, load_attempts, merge_attempts,
                    load_errs, merge_errs, err, pre_table, last_stmt >>
    /\ UNCHANGED load_result
    /\ UNCHANGED << loopVars, reshapeVars, taskVars, dec >>

\* "Reintentar MERGE" (servicetitan_all_json_to_bq.py 690-730, 837-875): the
\* same statement once more; staging is dropped on success
RetryMerge ==
    /\ pc = "retry"
    /\ merge_attempts' = merge_attempts + 1
    /\ pre_table' = final_table
    /\ \/ /\ MergeCanSucceed(staging_table, final_table)
          /\ final_table' = Merged(staging_table, final_table, run)
          /\ staging_table' = NoTable
          /\ last_stmt' = "merge"
          /\ Finish("ok")
          /\ UNCHANGED merge_errs
       \/ \E e \in MergeErrors(staging_table, final_table) :
            /\ merge_errs' = Append(merge_errs, e.class)
            /\ Finish("failed")
            /\ UNCHANGED << final_table, staging_table, last_stmt >>
    /\ UNCHANGED << align_result, prev_run, run, entry, src, load_attempts, load_errs, err >>
    /\ UNCHANGED load_result
    /\ UNCHANGED << loopVars, reshapeVars, taskVars, dec >>

\* copy_table(staging, final, WRITE_TRUNCATE)
\* (servicetitan_all_json_to_bq.py 532-541)
CopyToFinal ==
    /\ pc = "copy"
    /\ \E ok \in BOOLEAN :
          IF ok
          THEN /\ pre_table' = final_table
               /\ final_table' = Table(staging_table.schema,
                                       CopyRows(staging_table.rows,
                                                staging_cols(staging_table.schema)))
               /\ last_stmt' = "copy"
               /\ pc' = "copy_etl"
               /\ UNCHANGED outcome
          ELSE /\ Finish("failed")
               /\ UNCHANGED << final_table, pre_table, last_stmt >>
    /\ UNCHANGED << align_result, prev_run, run, entry, src, staging_table, load_attempts, merge_attempts,
                    load_errs, merge_errs, err >>
    /\ UNCHANGED load_result
    /\ UNCHANGED << loopVars, reshapeVars, taskVars, dec >>

\* "Agregar campos ETL si no existen (COPY los eliminó)"
\* (servicetitan_all_json_to_bq.py 543-570)
CopyEtl ==
    /\ pc = "copy_etl"
    /\ LET missing == MissingEtl(final_table.schema)
       IN  \E k \in 0 .. Len(missing) :
              /\ final_table' = [final_table EXCEPT
                                   !.schema = AppendFirst(@, missing, k)]
              /\ IF k = Len(missing)
                 THEN pc' = "backfill" /\ UNCHANGED outcome
                 ELSE Finish("failed")
    /\ UNCHANGED << align_result, prev_run, run, entry, src, staging_table, load_attempts, merge_attempts,
                    load_errs, merge_errs, err, pre_table, last_stmt >>
    /\ UNCHANGED load_result
    /\ UNCHANGED << loopVars, reshapeVars, taskVars, dec >>

\* a backfill that drops the staging table whether it succeeds or not
Backfill_DropAlways ==
    /\ pc = "backfill"
    /\ \E ok \in BOOLEAN :
          IF ok
          THEN /\ final_table' = [final_table EXCEPT !.rows = BackfillEtl(@, run)]
               /\ Finish("ok")
          ELSE /\ Finish("failed")
               /\ UNCHANGED final_table
    /\ staging_table' = NoTable
    /\ UNCHANGED << align_result, prev_run, run, entry, src, load_attempts, merge_attempts, load_errs,
                    merge_errs, err, pre_table, last_stmt >>
    /\ UNCHANGED load_result
    /\ UNCHANGED << loopVars, reshapeVars, taskVars, dec >>

\* UPDATE ... SET _etl_synced, _etl_operation WHERE _etl_synced IS NULL, then
\* the staging table is dropped (servicetitan_all_json_to_bq.py 572-619)
Backfill ==
    /\ pc = "backfill"
    /\ \E ok \in BOOLEAN :
          IF ok
          THEN /\ final_table' = [final_table EXCEPT !.rows = BackfillEtl(@, run)]
               /\ staging_table' = NoTable
               /\ Finish("ok")
          ELSE /\ Finish("failed")
               /\ UNCHANGED << final_table, staging_table >>
    /\ UNCHANGED << align_result, prev_run, run, entry, src, load_attempts, merge_attempts, load_errs,
                    merge_errs, err, pre_table, last_stmt >>
    /\ UNCHANGED load_result
    /\ UNCHANGED << loopVars, reshapeVars, taskVars, dec >>

\* ------------------------------------------------------------------------
\* servicetitan_json_to_bq.process_company: align, then MERGE or INSERT
\* ------------------------------------------------------------------------
\* align_schemas_before_merge (servicetitan_common.py 693-781): one
\* update_table per incompatible field, each built from the schema read at
\* entry; k updates succeed before one is refused (k = all: none refused).
\* The caller logs an error and continues (servicetitan_json_to_bq.py
\* 263-279)
align_schemas_before_merge(s_schema, f_schema, k) ==
    LET inc == incompatible_fields(s_schema, f_schema)
    IN  IF k = 0 THEN f_schema
        ELSE aligned_schema(f_schema, inc[k].name, inc[k])

Align ==
    /\ pc = "align"
    /\ LET inc == incompatible_fields(staging_table.schema, final_table.schema)
       IN  \E k \in 0 .. Len(inc) :
             /\ final_table' = [final_table EXCEPT
                   !.schema = align_schemas_before_merge(staging_table.schema, @, k)]
             /\ align_result' = Corrections([j \in 1 .. k |-> inc[j].name], k < Len(inc))
    /\ pc' = "exec"
    /\ UNCHANGED << prev_run, run, entry, src, staging_table, load_attempts, merge_attempts,
                    load_errs, merge_errs, err, outcome, pre_table, last_stmt >>
    /\ UNCHANGED load_result
    /\ UNCHANGED << loopVars, reshapeVars, taskVars, dec >>

\* is_first_load = final_table.num_rows == 0 (servicetitan_common.py 1109)
is_first_load(f_table) == f_table.rows = {}

\* execute_merge_or_insert (servicetitan_common.py 1102-1208) and its
\* caller (servicetitan_json_to_bq.py 298-317): INSERT into an empty
\* destination, MERGE otherwise; staging is dropped on success
execute_merge_or_insert ==
    /\ pc = "exec"
    /\ merge_attempts' = merge_attempts + 1
    /\ pre_table' = final_table
    /\ \/ /\ SchemaErrors(staging_table.schema, final_table.schema) = {}
          /\ IF is_first_load(final_table)
             THEN /\ final_table' = [final_table EXCEPT
                        !.rows = BulkInsert(@, staging_table.rows,
                                            staging_cols(staging_table.schema), run)]
                  /\ last_stmt' = "insert"
             ELSE /\ MergeMatchesOnce(final_table.rows, staging_table.rows)
                  /\ final_table' = Merged(staging_table, final_table, run)
                  /\ last_stmt' = "merge"
          /\ staging_table' = NoTable
          /\ Finish("ok")
          /\ UNCHANGED merge_errs
       \/ \E e \in MergeErrors(staging_table, final_table) :
            /\ merge_errs' = Append(merge_errs, e.class)
            /\ Finish("failed")
            /\ UNCHANGED << final_table, staging_table, last_stmt >>
    /\ UNCHANGED << align_result, prev_run, run, entry, src, load_attempts, load_errs, err >>
    /\ UNCHANGED load_result
    /\ UNCHANGED << loopVars, reshapeVars, taskVars, dec >>

\* ------------------------------------------------------------------------
\* main() and the control flow of process_company
\* (servicetitan_all_json_to_bq.py): every call to storage or to the
\* warehouse returns or raises
\* ------------------------------------------------------------------------
JOB_TIMEOUT_SECONDS == 40 * 60

\* what a tenant's processing can take, in seconds
TenantSeconds == {600, 40 * 60}

\* a call returns, raises an exception of some class, or raises a
\* TimeoutError (socket.timeout, concurrent.futures.TimeoutError)
Outcomes == {"ok", "Exception", "TimeoutError"}

\* get_dataset / get_table can also raise NotFound
LookupOutcomes == Outcomes \cup {"NotFound"}

InitLoop ==
    /\ tenant = 1
    /\ endpoint = 1
    /\ stage = "budget"
    /\ elapsed = 0
    /\ attempted = {}
    /\ logged = {}
    /\ audit = [rows |-> {}, faults |-> {}]
    /\ exc = "none"
    /\ procesadas = 0
    /\ run_end = "running"

\* `continue`, or the end of the body: the next endpoint, or process_company
\* returns after the last one
Continue ==
    IF endpoint < NEndpoints
    THEN /\ endpoint' = endpoint + 1
         /\ stage' = "download"
         /\ attempted' = attempted \cup {<< tenant, endpoint + 1 >>}
    ELSE /\ stage' = "returned"
         /\ UNCHANGED << endpoint, attempted >>

\* what can go wrong in an audit write: the client cannot be created,
\* json.dumps(info) fails, insert_rows_json raises, insert_rows_json returns
\* row errors
AuditFaults == {"none", "client", "serialisation", "insert_raises", "insert_errors"}

\* an audit write whose exceptions reach the caller
log_event_bq_Unguarded(fault) ==
    [inserted |-> fault = "none",
     raised |-> fault \in {"client", "serialisation", "insert_raises"}]

\* log_event_bq (servicetitan_common.py 247-280): the whole body is inside
\* try / except Exception, row errors are printed; it returns None
log_event_bq(fault) == [inserted |-> fault = "none", raised |-> FALSE]

\* an except-branch of the body: the failure is printed and logged, then
\* `continue`
CatchAndContinue ==
    /\ logged' = logged \cup {<< tenant, endpoint >>}
    /\ \E fault \in AuditFaults :
          LET r == log_event_bq(fault)
          IN  /\ audit' = [rows |-> IF r.inserted
                                    THEN audit.rows \cup {<< tenant, endpoint >>}
                                    ELSE audit.rows,
                           faults |-> IF fault # "none"
                                      THEN audit.faults \cup {<< tenant, endpoint >>}
                                      ELSE audit.faults]
              /\ IF r.raised
                 THEN /\ exc' = "Exception"
                      /\ stage' = "raised"
                      /\ UNCHANGED << endpoint, attempted >>
                 ELSE Continue /\ UNCHANGED exc

\* an exception no handler of the body catches leaves process_company
Propagate(o) ==
    /\ exc' = o
    /\ stage' = "raised"
    /\ UNCHANGED << endpoint, attempted, logged, audit >>

\* the call succeeded: on to the next statement of the body
Proceed(next) ==
    /\ stage' = next
    /\ UNCHANGED << endpoint, attempted, logged, audit, exc >>

\* what a step inside the body of the endpoint loop leaves alone
outsideBody == << tenant, elapsed, procesadas, run_end, loaderVars, reshapeVars, taskVars, dec >>

\* the loop of main() is over (1054-1069)
RunCompleted ==
    /\ stage = "budget"
    /\ tenant > NTenants
    /\ stage' = "end"
    /\ run_end' = "completed"
    /\ UNCHANGED << tenant, endpoint, elapsed, attempted, logged, audit, exc, procesadas,
                    loaderVars, reshapeVars, taskVars, dec >>

\* "if elapsed_time >= JOB_TIMEOUT_SECONDS: ... raise TimeoutError" (1004-1019)
BudgetExhausted ==
    /\ stage = "budget"
    /\ tenant <= NTenants
    /\ elapsed >= JOB_TIMEOUT_SECONDS
    /\ stage' = "end"
    /\ run_end' = "budget"
    /\ UNCHANGED << tenant, endpoint, elapsed, attempted, logged, audit, exc, procesadas,
                    loaderVars, reshapeVars, taskVars, dec >>

\* process_company(row) is called and enters its endpoint loop (1033-1035,
\* 86-106)
StartTenant ==
    /\ stage = "budget"
    /\ tenant <= NTenants
    /\ elapsed < JOB_TIMEOUT_SECONDS
    /\ endpoint' = 1
    /\ stage' = "download"
    /\ attempted' = attempted \cup {<< tenant, 1 >>}
    /\ UNCHANGED << tenant, elapsed, logged, audit, exc, procesadas, run_end,
                    loaderVars, reshapeVars, taskVars, dec >>

\* blob.exists() / download_to_filename (107-150)
DownloadFile ==
    /\ stage = "download"
    /\ \E o \in Outcomes : IF o = "ok" THEN Proceed("reshape") ELSE CatchAndContinue
    /\ UNCHANGED outsideBody

\* fix_json_format (152-179)
ReshapeFile ==
    /\ stage = "reshape"
    /\ \E o \in Outcomes : IF o = "ok" THEN Proceed("dataset") ELSE CatchAndContinue
    /\ UNCHANGED outsideBody

\* get_dataset, create_dataset on NotFound (192-199)
EnsureStagingDataset ==
    /\ stage = "dataset"
    /\ \E o \in LookupOutcomes :
          CASE o = "ok" -> Proceed("clean")
            [] o = "NotFound" ->
                 \E c \in Outcomes : IF c = "ok" THEN Proceed("clean") ELSE Propagate(c)
            [] OTHER -> Propagate(o)
    /\ UNCHANGED outsideBody

\* delete_table(staging) inside try / except Exception: pass (201-205)
DeleteStaging ==
    /\ stage = "clean"
    /\ \E o \in Outcomes : Proceed("load")
    /\ UNCHANGED outsideBody

\* load_json_to_staging_with_error_handling returns success or the failure
\* it has logged (208-232)
LoadStaging ==
    /\ stage = "load"
    /\ \E o \in Outcomes : IF o = "ok" THEN Proceed("final") ELSE CatchAndContinue
    /\ UNCHANGED outsideBody

\* get_table(final), create_table on NotFound (237-262)
EnsureFinalTable ==
    /\ stage = "final"
    /\ \E o \in LookupOutcomes :
          CASE o = "ok" -> Proceed("schemas")
            [] o = "NotFound" ->
                 \E c \in Outcomes : IF c = "ok" THEN Proceed("schemas") ELSE Propagate(c)
            [] OTHER -> Propagate(o)
    /\ UNCHANGED outsideBody

\* staging_table = get_table(...); final_table = get_table(...) (271-272)
GetSchemas ==
    /\ stage = "schemas"
    /\ \E o \in Outcomes : IF o = "ok" THEN Proceed("new_cols") ELSE Propagate(o)
    /\ UNCHANGED outsideBody

\* the ALTER TABLE statements of the new columns: both handlers only print
\* (294-321)
AddNewColumns ==
    /\ stage = "new_cols"
    /\ \E o \in Outcomes : Proceed("etl_check")
    /\ UNCHANGED outsideBody

\* final_table_refresh = get_table(final) (324)
RefreshFinal ==
    /\ stage = "etl_check"
    /\ \E o \in Outcomes : IF o = "ok" THEN Proceed("etl") ELSE Propagate(o)
    /\ UNCHANGED outsideBody

\* the bookkeeping columns are added inside try / except (329-364)
EnsureEtlColumns ==
    /\ stage = "etl"
    /\ \E o \in Outcomes : IF o = "ok" THEN Proceed("merge") ELSE CatchAndContinue
    /\ UNCHANGED outsideBody

\* the first merge (394-409): its failure enters the reactive path
MergeStage ==
    /\ stage = "merge"
    /\ \E o \in Outcomes :
          IF o = "ok"
          THEN Continue /\ UNCHANGED << logged, audit, exc >>
          ELSE Proceed("react")
    /\ UNCHANGED outsideBody

\* the reactive path, run inside the except-branch of the merge: an
\* unrecognised error is logged (893-909); a recognised one first reads both
\* tables outside every try (426-427, 647-648), then corrects and retries
\* inside try / except (505-619, 669-730)
ReactStage ==
    /\ stage = "react"
    /\ \E recognised \in BOOLEAN :
          IF ~recognised
          THEN CatchAndContinue
          ELSE \E o \in Outcomes :
                  IF o # "ok"
                  THEN Propagate(o)
                  ELSE \E r \in Outcomes :
                          IF r = "ok"
                          THEN Continue /\ UNCHANGED << logged, audit, exc >>
                          ELSE CatchAndContinue
    /\ UNCHANGED outsideBody

\* process_company returned: procesadas += 1 and the next iteration (1035-1036)
TenantReturned ==
    /\ stage = "returned"
    /\ procesadas' = procesadas + 1
    /\ tenant' = tenant + 1
    /\ stage' = "budget"
    /\ \E d \in TenantSeconds : elapsed' = elapsed + d
    /\ UNCHANGED << endpoint, attempted, logged, audit, exc, run_end, loaderVars, reshapeVars, taskVars, dec >>

\* the handlers of main() (1039-1052): "except TimeoutError: raise", then
\* "except Exception" logs and goes on with the next tenant
MainExcept ==
    /\ stage = "raised"
    /\ IF exc = "TimeoutError"
       THEN /\ stage' = "end"
            /\ run_end' = "TimeoutError"
            /\ UNCHANGED << tenant, elapsed, exc >>
       ELSE /\ tenant' = tenant + 1
            /\ stage' = "budget"
            /\ exc' = "none"
            /\ \E d \in TenantSeconds : elapsed' = elapsed + d
            /\ UNCHANGED run_end
    /\ UNCHANGED << endpoint, attempted, logged, audit, procesadas, loaderVars, reshapeVars, taskVars, dec >>

\* ------------------------------------------------------------------------
\* The reshape (servicetitan_common.py): JSON values, keys as sequences of
\* characters, a JSON object as the sequence of its (key, value) pairs.  The
\* records of a file, and the lines of an output file, are kept as runs
\* [rec, n]: n consecutive records equal to rec
\* ------------------------------------------------------------------------
UpperChars == << "A", "B", "C", "D", "E", "F", "G", "H", "I", "J", "K", "L", "M",
                 "N", "O", "P", "Q", "R", "S", "T", "U", "V", "W", "X", "Y", "Z" >>

LowerChars == << "a", "b", "c", "d", "e", "f", "g", "h", "i", "j", "k", "l", "m",
                 "n", "o", "p", "q", "r", "s", "t", "u", "v", "w", "x", "y", "z" >>

DigitChars == {"0", "1", "2", "3", "4", "5", "6", "7", "8", "9"}

\* [A-Z]
IsUpper(c) == \E i \in DOMAIN UpperChars : UpperChars[i] = c

\* [a-z]
IsLower(c) == \E i \in DOMAIN LowerChars : LowerChars[i] = c

\* str.lower() of one character
LowerChar(c) ==
    IF IsUpper(c) THEN LowerChars[CHOOSE i \in DOMAIN UpperChars : UpperChars[i] = c]
    ELSE c

\* str.lower()
LowerStr(name) == [i \in DOMAIN name |-> LowerChar(name[i])]

\* the end of the run [a-z]+ that starts at k
LowerRunEnd(name, k) ==
    CHOOSE j \in k .. Len(name) :
        /\ \A m \in k .. j : IsLower(name[m])
        /\ j = Len(name) \/ ~IsLower(name[j + 1])

\* re.sub(r'(.)([A-Z][a-z]+)', r'\1_\2', name), scanning from i
RECURSIVE SubUpperWord(_, _)
SubUpperWord(name, i) ==
    IF i > Len(name) THEN << >>
    ELSE IF i + 2 <= Len(name) /\ IsUpper(name[i + 1]) /\ IsLower(name[i + 2])
         THEN LET j == LowerRunEnd(name, i + 2)
              IN  << name[i], "_" >> \o SubSeq(name, i + 1, j) \o SubUpperWord(name, j + 1)
         ELSE << name[i] >> \o SubUpperWord(name, i + 1)

\* re.sub(r'([a-z0-9])([A-Z])', r'\1_\2', name), scanning from i
RECURSIVE SubLowerUpper(_, _)
SubLowerUpper(name, i) ==
    IF i > Len(name) THEN << >>
    ELSE IF /\ i + 1 <= Len(name)
            /\ IsLower(name[i]) \/ name[i] \in DigitChars
            /\ IsUpper(name[i + 1])
         THEN << name[i], "_", name[i + 1] >> \o SubLowerUpper(name, i + 2)
         ELSE << name[i] >> \o SubLowerUpper(name, i + 1)

to_snake_case(name) == LowerStr(SubLowerUpper(SubUpperWord(name, 1), 1))

\* JSON values
JNull == [kind |-> "null"]

JScalar(v) == [kind |-> "scalar", v |-> v]

JList(items) == [kind |-> "list", items |-> items]

JDict(pairs) == [kind |-> "dict", pairs |-> pairs]

\* `sub in name` for two strings
Contains(name, sub) ==
    \E i \in 1 .. Len(name) - Len(sub) + 1 : SubSeq(name, i, i + Len(sub) - 1) = sub

\* 'serial' in lower and 'number' in lower
IsSerialNumber(path) ==
    /\ Contains(LowerStr(path), << "s", "e", "r", "i", "a", "l" >>)
    /\ Contains(LowerStr(path), << "n", "u", "m", "b", "e", "r" >>)

\* f"{field_path}.{k}" if field_path else k
NestedPath(field_path, k) ==
    IF field_path = << >> THEN k ELSE field_path \o << "." >> \o k

\* d[k] = v on a dict kept as the sequence of its items
DictSet(d, k, v) ==
    IF \E i \in DOMAIN d : d[i][1] = k
    THEN [i \in DOMAIN d |-> IF d[i][1] = k THEN << k, v >> ELSE d[i]]
    ELSE Append(d, << k, v >>)

\* a normaliser that converts the keys of nested objects as well
RECURSIVE fix_nested_value_SnakeKeys(_, _, _)
fix_nested_value_SnakeKeys(value, field_path, known_array_fields) ==
    CASE value.kind = "null" -> JNull
      [] value.kind = "dict" ->
           IF IsSerialNumber(field_path) THEN JList(<< >>)
           ELSE JDict([i \in DOMAIN value.pairs |->
                    LET k == value.pairs[i][1]
                        v == value.pairs[i][2]
                        nested_path == NestedPath(field_path, k)
                    IN  IF IsSerialNumber(nested_path) /\ v.kind = "dict"
                        THEN << to_snake_case(k), JList(<< >>) >>
                        ELSE << to_snake_case(k),
                                fix_nested_value_SnakeKeys(v, nested_path,
                                                           known_array_fields) >>])
      [] value.kind = "list" ->
           JList([i \in DOMAIN value.items |->
                    fix_nested_value_SnakeKeys(value.items[i], field_path,
                                               known_array_fields)])
      [] OTHER -> value

RECURSIVE fix_nested_value(_, _, _)
fix_nested_value(value, field_path, known_array_fields) ==
    CASE value.kind = "null" -> JNull
      [] value.kind = "dict" ->
           IF IsSerialNumber(field_path) THEN JList(<< >>)
           ELSE JDict([i \in DOMAIN value.pairs |->
                    LET k == value.pairs[i][1]
                        v == value.pairs[i][2]
                        nested_path == NestedPath(field_path, k)
                    IN  IF IsSerialNumber(nested_path) /\ v.kind = "dict"
                        THEN << k, JList(<< >>) >>
                        ELSE << k, fix_nested_value(v, nested_path, known_array_fields) >>])
      [] value.kind = "list" ->
           JList([i \in DOMAIN value.items |->
                    fix_nested_value(value.items[i], field_path, known_array_fields)])
      [] OTHER -> value

\* transform_item without the conversion of a null list field
RECURSIVE transform_item_KeepNull(_, _)
transform_item_KeepNull(item, array_fields) ==
    IF item = << >> THEN << >>
    ELSE LET k == item[Len(item)][1]
             v == item[Len(item)][2]
             snake_key == to_snake_case(k)
         IN  DictSet(transform_item_KeepNull(SubSeq(item, 1, Len(item) - 1), array_fields),
                     snake_key, fix_nested_value(v, snake_key, array_fields))

\* transform_item: the items of the input in order, each assigned to
\* new_item[snake_key]
RECURSIVE transform_item(_, _)
transform_item(item, array_fields) ==
    IF item = << >> THEN << >>
    ELSE LET k == item[Len(item)][1]
             v == item[Len(item)][2]
             snake_key == to_snake_case(k)
             fixed_value == fix_nested_value(v, snake_key, array_fields)
         IN  DictSet(transform_item(SubSeq(item, 1, Len(item) - 1), array_fields),
                     snake_key,
                     IF snake_key \in array_fields /\ fixed_value = JNull
                     THEN JList(<< >>) ELSE fixed_value)

Run(rec, n) == [rec |-> rec, n |-> n]

\* len(items)
RECURSIVE Total(_)
Total(items) == IF items = << >> THEN 0 ELSE Head(items).n + Total(Tail(items))

\* "for item in items: for k, v in item.items(): if isinstance(v, list):
\* repeated_fields.add(to_snake_case(k))"
detected_fields(items) ==
    UNION {{to_snake_case(rec[j][1]) : j \in {m \in DOMAIN rec : rec[m][2].kind = "list"}} :
              rec \in {items[i].rec : i \in DOMAIN items}}

\* json_data[:n]
RECURSIVE FirstItems(_, _)
FirstItems(items, n) ==
    IF items = << >> \/ n <= 0 THEN << >>
    ELSE IF Head(items).n <= n
         THEN << Head(items) >> \o FirstItems(Tail(items), n - Head(items).n)
         ELSE << Run(Head(items).rec, n) >>

\* "for item in json_data[:1000]"
MEMORY_SAMPLE == 1000

\* a file without a malformed record; otherwise malformed is the number of
\* well-formed records before the malformed one, and records are the
\* well-formed ones
NoMalformed == -1

\* the objects decoder.raw_decode gives before it first raises: the loops
\* over an array stop there ("except (ValueError, json.JSONDecodeError): ...
\* break", 428-431 and 508-514), whatever follows in the file
decoded_array(f) ==
    IF f.malformed = NoMalformed THEN f.records ELSE FirstItems(f.records, f.malformed)

\* "while idx < len(buffer) and len(items) < 100"
STREAM_SAMPLE_ITEMS == 100

\* "if i >= 100: break"
STREAM_SAMPLE_LINES == 100

\* the items the streaming path samples: the first 100 complete objects of
\* the first 1 MB chunk of an array, the first 100 lines otherwise
streaming_sample(f) ==
    IF f.framing = "array"
    THEN FirstItems(FirstItems(decoded_array(f), f.chunk_items), STREAM_SAMPLE_ITEMS)
    ELSE FirstItems(f.records,
                    IF f.malformed \in 0 .. STREAM_SAMPLE_LINES - 1
                    THEN STREAM_SAMPLE_LINES - 1 ELSE STREAM_SAMPLE_LINES)

\* every record transformed and written, in input order
transformed_items(records, repeated_fields) ==
    [i \in DOMAIN records |->
        Run(transform_item(records[i].rec, repeated_fields), records[i].n)]

\* --- the source files ---
KeyId == << "i", "d" >>

KeyItems == << "l", "i", "n", "e", "I", "t", "e", "m", "s" >>

KeySerial == << "s", "e", "r", "i", "a", "l", "N", "u", "m", "b", "e", "r", "s" >>

\* a record with the id only
RecPlain == << << KeyId, JScalar("1") >> >>

\* a record whose lineItems is v
RecItems(v) == << << KeyId, JScalar("1") >>, << KeyItems, v >> >>

\* what lineItems is in the records that do not carry it as a list
OtherValues ==
    { JNull, JScalar("x"),
      JDict(<< << KeySerial, JDict(<< << KeyId, JScalar("1") >> >>) >>,
               << KeyItems, JNull >> >>) }

ListValue == JList(<< JScalar("1"), JNull >>)

\* the same field spelled in PascalCase and in snake_case
KeyPascal == << "L", "i", "n", "e", "I", "t", "e", "m", "s" >>

KeySnake == << "l", "i", "n", "e", "_", "i", "t", "e", "m", "s" >>

\* a record whose LineItems is null
RecPascal == << << KeyId, JScalar("1") >>, << KeyPascal, JNull >> >>

\* a record whose line_items is a list of objects: an object inside an
\* object inside the list, with keys in the three spellings and nulls under
\* the key line_items at two depths
RecNested ==
    << << KeyId, JScalar("1") >>,
       << KeySnake,
          JList(<< JDict(<< << KeyItems,
                               JDict(<< << KeyPascal, JScalar("x") >>,
                                        << KeySnake, JNull >> >>) >>,
                            << KeySnake, JNull >> >>) >>) >> >>

\* a record with the field under two keys, lineItems and line_items
RecBoth ==
    << << KeyId, JScalar("1") >>,
       << KeyItems, JScalar("x") >>,
       << KeySnake, JScalar("y") >> >>

\* the records that carry the field otherwise than as the first list
OtherRecords == {RecItems(u) : u \in OtherValues} \cup {RecPascal, RecNested, RecBoth}

\* the record positions of interest around the two sampling windows
Positions == {1, 100, 101, 1000, MaxRecords}

FileLengths == {101, MaxRecords}

\* the number of complete objects the first 1 MB chunk of an array holds
ChunkItems == {10, 200}

\* n records: lineItems is a list for the first time at p, the record at q
\* is o, and the other records do not have the key
FileRecords(n, p, q, o) ==
    LET a == IF p < q THEN p ELSE q
        b == IF p < q THEN q ELSE p
        at(i) == IF i = p THEN RecItems(ListValue) ELSE o
    IN  SelectSeq(<< Run(RecPlain, a - 1), Run(at(a), 1), Run(RecPlain, b - a - 1),
                     Run(at(b), 1), Run(RecPlain, n - b) >>,
                  LAMBDA r : r.n > 0)

\* repeated_fields of a file is the argument of fix_json_format; given is
\* FALSE when the argument is None
NoFile == [framing |-> "none", records |-> << >>, chunk_items |-> 0,
           given |-> FALSE, repeated_fields |-> {}, malformed |-> NoMalformed]

\* where the malformed record of a file is: none, the first record, or the
\* record after the first 100
MalformedAt == {NoMalformed, 0, 100}

InitReshape ==
    /\ file = NoFile
    /\ rpc = "start"
    /\ repeated_fields_mem = {}
    /\ repeated_fields_stream = {}
    /\ out_mem = << >>
    /\ out_stream = << >>
    /\ raised = [mem |-> FALSE, stream |-> FALSE]

\* the source file of an endpoint and the repeated_fields argument (None or
\* a set of names): no record at all, or n well-formed records, and possibly
\* one malformed record among them
OpenFile ==
    /\ rpc = "start"
    /\ \E fr \in {"array", "ndjson"}, c \in ChunkItems, given \in BOOLEAN,
          bad \in MalformedAt :
        \E recs \in {<< >>} \cup
                    UNION {{FileRecords(t[1], t[2], t[3], o) : o \in OtherRecords} :
                              t \in {u \in FileLengths \X Positions \X Positions :
                                        u[2] <= u[1] /\ u[3] <= u[1] /\ u[2] # u[3]}} :
            /\ fr = "ndjson" => c = 200
            /\ bad <= Total(recs)
            /\ file' = [framing |-> fr, records |-> recs,
                        chunk_items |-> c, given |-> given,
                        repeated_fields |->
                            IF given THEN {to_snake_case(KeyItems)} ELSE {},
                        malformed |-> bad]
    /\ rpc' = "sample_mem"
    /\ UNCHANGED << repeated_fields_mem, repeated_fields_stream, out_mem, out_stream,
                    raised, loaderVars, loopVars, taskVars, dec >>

\* fix_json_format, in memory: json.load(f) / json.loads(line) of the whole
\* file, which raises on a malformed record (349-358), then
\* "if repeated_fields is None" (360-367)
SampleMemory ==
    /\ rpc = "sample_mem"
    /\ IF file.malformed # NoMalformed
       THEN /\ raised' = [raised EXCEPT !.mem = TRUE]
            /\ rpc' = "sample_stream"
            /\ UNCHANGED repeated_fields_mem
       ELSE /\ repeated_fields_mem' =
                  IF ~file.given
                  THEN detected_fields(FirstItems(file.records, MEMORY_SAMPLE))
                  ELSE file.repeated_fields
            /\ rpc' = "transform_mem"
            /\ UNCHANGED raised
    /\ UNCHANGED << file, repeated_fields_stream, out_mem, out_stream,
                    loaderVars, loopVars, taskVars, dec >>

\* fix_json_format, in memory: transform and write (369-378)
TransformMemory ==
    /\ rpc = "transform_mem"
    /\ out_mem' = transformed_items(file.records, repeated_fields_mem)
    /\ rpc' = "sample_stream"
    /\ UNCHANGED << file, repeated_fields_mem, repeated_fields_stream, out_stream,
                    raised, loaderVars, loopVars, taskVars, dec >>

\* fix_json_format_streaming: "if repeated_fields is None" (392-449)
SampleStreaming ==
    /\ rpc = "sample_stream"
    /\ repeated_fields_stream' =
          IF ~file.given
          THEN detected_fields(streaming_sample(file))
          ELSE file.repeated_fields
    /\ rpc' = "transform_stream"
    /\ UNCHANGED << file, repeated_fields_mem, out_mem, out_stream,
                    raised, loaderVars, loopVars, taskVars, dec >>

\* fix_json_format_streaming: every object of the file is decoded,
\* transformed and written (451-543): the loop over an array ends at the
\* first object raw_decode refuses, the loop over lines skips a line
\* json.loads refuses; "if items_processed == 0: print(...)" (545-549) and
\* the function returns
TransformStreaming ==
    /\ rpc = "transform_stream"
    /\ out_stream' = transformed_items(IF file.framing = "array"
                                       THEN decoded_array(file)
                                       ELSE file.records,
                                       repeated_fields_stream)
    /\ rpc' = "done"
    /\ UNCHANGED << file, repeated_fields_mem, repeated_fields_stream, out_mem,
                    raised, loaderVars, loopVars, taskVars, dec >>

\* ------------------------------------------------------------------------
\* The tasks of a parallel execution (main() of both jobs): every task reads
\* the same list of tenants, ordered by company_id, and keeps its slice.  A
\* tenant is the index of its row in that list; it has its own project, and
\* its staging tables are <project>.staging.<table> with the siblings
\* <table>_schema_sample and <table>_sample.
\* ------------------------------------------------------------------------
companies_per_task(n_total, n_tasks) == n_total \div n_tasks

remainder(n_total, n_tasks) == n_total % n_tasks

Min(a, b) == IF a < b THEN a ELSE b

start_idx_NoRemainder(task_index, n_total, n_tasks) ==
    task_index * companies_per_task(n_total, n_tasks)

start_idx(task_index, n_total, n_tasks) ==
    task_index * companies_per_task(n_total, n_tasks)
        + Min(task_index, remainder(n_total, n_tasks))

end_idx_ExtraAlways(task_index, n_total, n_tasks) ==
    start_idx(task_index, n_total, n_tasks)
        + companies_per_task(n_total, n_tasks) + 1

end_idx(task_index, n_total, n_tasks) ==
    start_idx(task_index, n_total, n_tasks)
        + companies_per_task(n_total, n_tasks)
        + (IF task_index < remainder(n_total, n_tasks) THEN 1 ELSE 0)

\* what process_company does with the staging table of an endpoint, in order:
\* delete_table(not_found_ok), the schema sample sibling, the load job,
\* get_table and the merge reading it, delete_table
StagingOps == << "delete", "schema_sample", "load", "read", "drop" >>

TaskAt(p, a, b, k, o) == [pc |-> p, start_idx |-> a, end_idx |-> b, idx |-> k, op |-> o]

InitTasks ==
    /\ task_count = 0
    /\ total = 0
    /\ tasks = << >>
    /\ addressed = [k \in 0 .. MaxTotal - 1 |-> {}]

\* the job is executed with CLOUD_RUN_TASK_COUNT tasks, indexed from 0
StartTasks ==
    /\ task_count = 0
    /\ \E n \in 1 .. MaxTasks, t \in 0 .. MaxTotal :
          /\ task_count' = n
          /\ total' = t
          /\ tasks' = [i \in 0 .. n - 1 |-> TaskAt("query", 0, 0, 0, 1)]
    /\ UNCHANGED << addressed, loaderVars, loopVars, reshapeVars, dec >>

\* "results = list(client.query(query).result())", then
\* "if is_parallel: ... results = results[start_idx:end_idx]"
SliceCompanies ==
    /\ \E i \in DOMAIN tasks :
          /\ tasks[i].pc = "query"
          /\ LET a == IF task_count > 1 THEN start_idx(i, total, task_count) ELSE 0
                 b == IF task_count > 1 THEN end_idx(i, total, task_count) ELSE total
             IN tasks' = [tasks EXCEPT ![i] =
                             TaskAt(IF a < b THEN "company" ELSE "end", a, b, a, 1)]
    /\ UNCHANGED << task_count, total, addressed, loaderVars, loopVars, reshapeVars, dec >>

\* one operation of process_company(row) on the staging table of the tenant
\* in progress; after the last one the loop of main() takes the next row
StagingOp ==
    /\ \E i \in DOMAIN tasks :
          /\ tasks[i].pc = "company"
          /\ addressed' = [addressed EXCEPT ![tasks[i].idx] = @ \cup {i}]
          /\ tasks' = [tasks EXCEPT ![i] =
                          IF @.op < Len(StagingOps)
                          THEN [@ EXCEPT !.op = @ + 1]
                          ELSE IF @.idx + 1 < @.end_idx
                               THEN [@ EXCEPT !.idx = @ + 1, !.op = 1]
                               ELSE [@ EXCEPT !.pc = "end"]]
    /\ UNCHANGED << task_count, total, loaderVars, loopVars, reshapeVars, dec >>

\* ------------------------------------------------------------------------
\* fix_json_format on the text of a file (servicetitan_common.py 331-549):
\* the choice of the path by the size, the choice of the framing by the
\* first character, and the chunked loop over an array.  A text is a
\* sequence of characters; a top-level object is "{", one character that
\* tells the objects apart, "}".
\* ------------------------------------------------------------------------
LARGE_FILE_THRESHOLD_MB == 100

\* os.path.getsize(local_path) of the files: around the threshold
FileSizes == {LARGE_FILE_THRESHOLD_MB * 1024 * 1024 + d : d \in {-1, 0, 1}}

\* "file_size_mb = os.path.getsize(local_path) / (1024 * 1024)";
\* "if file_size_mb >= LARGE_FILE_THRESHOLD_MB"
streaming_chosen_AtThreshold(size) == size >= LARGE_FILE_THRESHOLD_MB * 1024 * 1024

\* "file_size_mb = os.path.getsize(local_path) / (1024 * 1024)";
\* "if file_size_mb > LARGE_FILE_THRESHOLD_MB"
streaming_chosen(size) == size > LARGE_FILE_THRESHOLD_MB * 1024 * 1024

ObjectIds == << "1", "2", "3", "4", "5", "6", "7", "8", "9" >>

\* the text of a file of k objects: "[{1},{2}]" or "{1}\n{2}\n", after
\* ws characters of white space
RECURSIVE FileText(_, _, _)
FileText(fr, k, ws) ==
    IF ws > 0 THEN << " " >> \o FileText(fr, k, ws - 1)
    ELSE LET obj(i) == << "{", ObjectIds[i], "}" >>
             RECURSIVE items(_)
             items(i) == IF i > k THEN << >>
                         ELSE obj(i) \o (IF fr = "ndjson" THEN << "\n" >>
                                         ELSE IF i < k THEN << "," >> ELSE << >>)
                               \o items(i + 1)
         IN  IF fr = "array" THEN << "[" >> \o items(1) \o << "]" >> ELSE items(1)

\* str.lstrip()
RECURSIVE lstrip(_)
lstrip(buffer) ==
    IF buffer # << >> /\ Head(buffer) \in {" ", "\n"} THEN lstrip(Tail(buffer)) ELSE buffer

\* "first_char = f.read(1) ... if first_char == '['"
first_char_framing(text) ==
    IF text # << >> /\ text[1] = "[" THEN "array" ELSE "ndjson"

\* decoder.raw_decode(buffer) returns an object when the buffer starts with
\* a complete one, and raises otherwise
raw_decode_ok(buffer) == Len(buffer) >= 3 /\ buffer[1] = "{" /\ buffer[3] = "}"

\* "while buffer:" (485-514): objects are decoded and written until the
\* buffer is empty, starts with "]" or raw_decode raises
RECURSIVE parse_buffer(_, _)
parse_buffer(buffer, items) ==
    LET b == lstrip(buffer)
    IN  IF b = << >> \/ b[1] = "]" \/ ~raw_decode_ok(b)
        THEN [buffer |-> b, items |-> items]
        ELSE LET rest == lstrip(SubSeq(b, 4, Len(b)))
             IN  parse_buffer(IF rest # << >> /\ rest[1] = ","
                              THEN lstrip(Tail(rest)) ELSE rest,
                              Append(items, b[2]))

NoFraming == [mem |-> "none", sample |-> "none", stream |-> "none"]

InitDecode ==
    dec = [pc |-> "start", text |-> << >>, framed |-> "none", objects |-> 0,
           size |-> 0, chunk_size |-> 0, path |-> "none", framing |-> NoFraming,
           pos |-> 0, buffer |-> << >>, array_started |-> FALSE, items |-> << >>]

\* fix_json_format is called on a file and chooses the path (340-346)
Dispatch ==
    /\ dec.pc = "start"
    /\ \E fr \in {"array", "ndjson"}, k \in 0 .. MaxObjects, ws \in {0, 1},
          size \in FileSizes, c \in 1 .. MaxChunk :
          dec' = [dec EXCEPT !.text = FileText(fr, k, ws), !.framed = fr,
                             !.objects = k, !.size = size, !.chunk_size = c,
                             !.path = IF streaming_chosen(size)
                                      THEN "streaming" ELSE "memory",
                             !.pc = IF streaming_chosen(size)
                                    THEN "sample" ELSE "memory"]
    /\ UNCHANGED << loaderVars, loopVars, reshapeVars, taskVars >>

\* the in-memory path opens the file (349-358)
MemoryFraming ==
    /\ dec.pc = "memory"
    /\ dec' = [dec EXCEPT !.framing.mem = first_char_framing(dec.text), !.pc = "done"]
    /\ UNCHANGED << loaderVars, loopVars, reshapeVars, taskVars >>

\* the sampling of fix_json_format_streaming opens the file (394-398)
SamplerFraming ==
    /\ dec.pc = "sample"
    /\ dec' = [dec EXCEPT !.framing.sample = first_char_framing(dec.text),
                          !.pc = "open"]
    /\ UNCHANGED << loaderVars, loopVars, reshapeVars, taskVars >>

\* the processing of fix_json_format_streaming opens the file (454-465)
DecoderFraming ==
    /\ dec.pc = "open"
    /\ dec' = [dec EXCEPT !.framing.stream = first_char_framing(dec.text),
                          !.pc = IF first_char_framing(dec.text) = "array"
                                 THEN "chunk" ELSE "done"]
    /\ UNCHANGED << loaderVars, loopVars, reshapeVars, taskVars >>

\* one iteration of "while True:" (468-518): a chunk is read and appended,
\* the opening "[" is skipped once, the complete objects of the buffer are
\* written, and the loop ends when nothing was read
ReadChunk ==
    /\ dec.pc = "chunk"
    /\ LET last == IF dec.pos + dec.chunk_size < Len(dec.text)
                   THEN dec.pos + dec.chunk_size ELSE Len(dec.text)
           chunk == SubSeq(dec.text, dec.pos + 1, last)
           joined == dec.buffer \o chunk
           b == lstrip(joined)
           opens == ~dec.array_started /\ b # << >> /\ b[1] = "["
           closes == ~dec.array_started /\ b # << >> /\ b[1] = "]"
           parsed == parse_buffer(IF opens THEN lstrip(Tail(b))
                                  ELSE IF dec.array_started THEN joined ELSE b,
                                  dec.items)
       IN  IF chunk = << >> /\ dec.buffer = << >>
           THEN dec' = [dec EXCEPT !.pc = "done"]
           ELSE IF closes
           THEN dec' = [dec EXCEPT !.pos = last, !.buffer = b, !.pc = "done"]
           ELSE dec' = [dec EXCEPT !.pos = last,
                                   !.buffer = parsed.buffer,
                                   !.items = parsed.items,
                                   !.array_started = dec.array_started \/ opens,
                                   !.pc = IF chunk = << >> THEN "done" ELSE "chunk"]
    /\ UNCHANGED << loaderVars, loopVars, reshapeVars, taskVars >>

\* ------------------------------------------------------------------------
\* Specifications
\* ------------------------------------------------------------------------
Init == InitLoader /\ InitLoop /\ InitReshape /\ InitTasks /\ InitDecode

Next ==
    \/ StartRun
    \/ Download
    \/ CleanStaging
    \/ LoadFirst
    \/ LoadRetry
    \/ EnsureFinal
    \/ AddNewCols
    \/ EnsureEtl
    \/ Merge
    \/ React
    \/ RetryMerge
    \/ CopyToFinal
    \/ CopyEtl
    \/ Backfill
    \/ Align
    \/ execute_merge_or_insert

\* one (tenant, endpoint) pair over successive runs: the tables
Spec == Init /\ [][Next]_vars

NextLoop ==
    \/ RunCompleted
    \/ BudgetExhausted
    \/ StartTenant
    \/ DownloadFile
    \/ ReshapeFile
    \/ EnsureStagingDataset
    \/ DeleteStaging
    \/ LoadStaging
    \/ EnsureFinalTable
    \/ GetSchemas
    \/ AddNewColumns
    \/ RefreshFinal
    \/ EnsureEtlColumns
    \/ MergeStage
    \/ ReactStage
    \/ TenantReturned
    \/ MainExcept

\* one run of main(): tenants, endpoints, exceptions
SpecLoop == Init /\ [][NextLoop]_vars

NextReshape ==
    \/ OpenFile
    \/ SampleMemory
    \/ TransformMemory
    \/ SampleStreaming
    \/ TransformStreaming

\* one source file through both paths of fix_json_format
SpecReshape == Init /\ [][NextReshape]_vars

NextTasks ==
    \/ StartTasks
    \/ SliceCompanies
    \/ StagingOp

SpecTasks == Init /\ [][NextTasks]_vars

NextDecode ==
    \/ Dispatch
    \/ MemoryFraming
    \/ SamplerFraming
    \/ DecoderFraming
    \/ ReadChunk

SpecDecode == Init /\ [][NextDecode]_vars

TypeOK ==
    /\ run \in 0 .. MaxRuns
    /\ outcome \in {"none", "ok", "failed", "raised"}
    /\ load_attempts \in 0 .. 3
    /\ merge_attempts \in 0 .. 3

\* ------------------------------------------------------------------------
\* Properties of the loader (Spec)
\* ------------------------------------------------------------------------
\* the staging snapshot has one record per id
Keyed(S) == \A s1 \in S, s2 \in S : s1.id = s2.id => s1 = s2

\* the destination rows of an id
RowsOf(rows, i) == {r \in rows : r.id = i}

\* C1: after a successful MERGE into a non-empty destination D from a
\* staging snapshot S keyed by id: an id in both has S's value in every
\* staging non-id column and _etl_operation = UPDATE; an id only in S is
\* inserted with S's values and INSERT; an id only in D has DELETE and its
\* data columns unchanged; every row carries this run's _etl_synced.
C1_MergeCorrectness ==
    (last_stmt = "merge" /\ pre_table.rows # {} /\ Keyed(src.rows)) =>
        LET D == pre_table.rows
            S == src.rows
            F == final_table.rows
            cols == staging_cols(src.schema)
        IN  /\ \A s \in S :
                 /\ RowsOf(F, s.id) # {}
                 /\ \A r \in RowsOf(F, s.id) :
                      /\ \A c \in cols : r.data[c] = s.v
                      /\ r.op = IF s.id \in Ids(D) THEN "UPDATE" ELSE "INSERT"
                      /\ s.id \notin Ids(D) =>
                            \A c \in DataCols \ cols : r.data[c] = NULL
            /\ \A d \in D :
                 d.id \notin Ids(S) => Row(d.id, d.data, "DELETE", run) \in F
            /\ Ids(F) = Ids(D) \cup Ids(S)
            /\ \A r \in F : r.synced = run

\* a MERGE has met the three kinds of id at once
C1_Witness ==
    /\ last_stmt = "merge"
    /\ Keyed(src.rows)
    /\ Ids(pre_table.rows) \cap Ids(src.rows) # {}
    /\ Ids(pre_table.rows) \ Ids(src.rows) # {}
    /\ Ids(src.rows) \ Ids(pre_table.rows) # {}
    /\ \E d \in pre_table.rows, s \in src.rows : d.id = s.id /\ d.data["a"] # s.v

\* C2 (as claimed): no step of the loader removes a row of the destination:
\* the set of ids never shrinks, and a row whose id is absent from staging
\* keeps every data column.
C2_NeverRemovesRow ==
    [][/\ Ids(final_table.rows) \subseteq Ids(final_table'.rows)
       /\ final_table'.rows # final_table.rows =>
             \A d \in final_table.rows :
                 d.id \notin Ids(staging_table.rows) =>
                     \E r \in final_table'.rows : r.id = d.id /\ r.data = d.data
      ]_vars

\* C2 (amended): every statement other than the fallback's copy_table keeps
\* the ids of the destination, and a row whose id is absent from staging is
\* only re-stamped: DELETE, this run's _etl_synced, data columns unchanged.
C2_OnlyCopyRemovesRows ==
    [][(pc # "copy" /\ final_table'.rows # final_table.rows) =>
          /\ Ids(final_table.rows) \subseteq Ids(final_table'.rows)
          /\ \A d \in final_table.rows :
                d.id \notin Ids(staging_table.rows) =>
                    Row(d.id, d.data, "DELETE", run) \in final_table'.rows
      ]_vars

\* a MERGE has stamped a row that staging no longer has
C2_Witness ==
    /\ last_stmt = "merge"
    /\ \E d \in pre_table.rows :
          /\ d.id \notin Ids(src.rows)
          /\ Row(d.id, d.data, "DELETE", run) \in final_table.rows

\* C3: the set of column names of the destination never loses a name.
C3_ColumnsNeverDisappear ==
    [][final_table.exists =>
          Names(final_table.schema) \subseteq Names(final_table'.schema)]_vars

\* the sub-field definitions of the union: staging's, then the
\* destination's that staging does not have
SubUnion(old, new) ==
    Range(new.fields) \cup {f \in Range(old.fields) : f.name \notin SubNames(new)}

\* C4: a step that changes the definition of a composite column of the
\* destination leaves it with the union of its previous sub-fields and
\* staging's, staging's definition for those in both; no sub-field of a
\* composite column is ever missing afterwards.
C4_CompositeUnion ==
    [][\A n \in Names(final_table.schema) :
          LET old == FieldOf(final_table.schema, n)
          IN  (IsStructType(old.field_type) /\ final_table'.schema # final_table.schema) =>
                 /\ HasField(final_table'.schema, n)
                 /\ SubNames(old) \subseteq SubNames(FieldOf(final_table'.schema, n))
                 /\ (FieldOf(final_table'.schema, n) # old /\ HasField(staging_table.schema, n)) =>
                       Range(FieldOf(final_table'.schema, n).fields)
                          = SubUnion(old, FieldOf(staging_table.schema, n))
      ]_vars

\* C5: the rows the bulk INSERT leaves in a destination that had none are
\* the rows the MERGE statement produces from an empty destination and the
\* same staging snapshot.
C5_BulkEqualsMerge ==
    last_stmt = "insert" =>
        /\ pre_table.rows = {}
        /\ final_table.rows =
              MergeRows({}, src.rows, staging_cols(src.schema), run)

\* a first load of several records went through the INSERT
C5_Witness ==
    /\ last_stmt = "insert"
    /\ Cardinality(final_table.rows) >= 2

\* C6: a run starts at most two load jobs and executes the merge statement
\* at most twice; a load or a merge that failed twice in the same class is
\* reported as failed after exactly two attempts.
C6_AtMostOneRetry ==
    /\ load_attempts <= 2
    /\ merge_attempts <= 2
    /\ (Len(load_errs) >= 2 /\ load_errs[1] = load_errs[2]) =>
          (load_attempts = 2 /\ pc = "done" /\ outcome = "failed" /\ merge_attempts = 0)
    /\ (Len(merge_errs) >= 2 /\ merge_errs[1] = merge_errs[2]) =>
          (merge_attempts = 2 /\ pc = "done" /\ outcome = "failed")

\* the load went through after its one retry, and both executions of the
\* merge failed in the type class
C6_Witness ==
    /\ pc = "done"
    /\ outcome = "failed"
    /\ load_attempts = 2
    /\ load_errs = << "type_mismatch" >>
    /\ merge_attempts = 2
    /\ merge_errs = << "type", "type" >>

\* ------------------------------------------------------------------------
\* Properties of the loop (SpecLoop)
\* ------------------------------------------------------------------------
\* the loop has left the tenant t
LeftTenant(t) == tenant > t \/ (tenant = t /\ stage = "end")

\* C7: whatever failed while a (tenant, endpoint) pair was processed, every
\* remaining endpoint of the tenant is still attempted: once the loop has
\* left a tenant it entered, each of the tenant's endpoints was attempted,
\* and no exception has left the endpoint loop.
C7_EndpointIsolation ==
    /\ exc = "none"
    /\ \A t \in 1 .. NTenants :
          (<< t, 1 >> \in attempted /\ LeftTenant(t)) =>
              \A e \in 1 .. NEndpoints : << t, e >> \in attempted

\* C8: the run ends before the last assigned tenant only by the budget
\* check: no exception raised while a tenant is processed ends it.
C8_OnlyBudgetEndsRun ==
    /\ run_end \in {"running", "completed", "budget"}
    /\ (stage = "end" /\ tenant <= NTenants) => run_end = "budget"

\* ------------------------------------------------------------------------
\* Properties of the reshape (SpecReshape)
\* ------------------------------------------------------------------------
\* the multiset of the lines of an output file
BagOf(lines) ==
    [x \in {lines[i].rec : i \in DOMAIN lines} |->
        Total(SelectSeq(lines, LAMBDA r : r.rec = x))]

\* the value of the key k in a written record
ValueAt(rec, k) == rec[CHOOSE j \in DOMAIN rec : rec[j][1] = k][2]

\* the position in the file of the first record of the run i
FirstOf(lines, i) == 1 + Total(SubSeq(lines, 1, i - 1))

\* C9: for the same records, the multiset of records the streaming path
\* writes is the multiset the in-memory path writes, wherever a list-typed
\* field appears for the first time.
C9_StreamingEqualsMemory ==
    rpc = "done" => BagOf(out_stream) = BagOf(out_mem)

\* every known list field of every line is a list
AbsentOrList(lines, known) ==
    \A i \in DOMAIN lines : \A j \in DOMAIN lines[i].rec :
        lines[i].rec[j][1] \in known => lines[i].rec[j][2].kind = "list"

\* C10 (as claimed): in every written record, in both modes, a field named
\* in the known list fields is absent or a list.
C10_KnownListAbsentOrList ==
    /\ AbsentOrList(out_mem, repeated_fields_mem)
    /\ AbsentOrList(out_stream, repeated_fields_stream)

\* no known list field of a line is null; one that is not a list was a
\* scalar or an object in the input record
NeverNull(lines, known, records) ==
    \A i \in DOMAIN lines : \A j \in DOMAIN lines[i].rec :
        lines[i].rec[j][1] \in known =>
            /\ lines[i].rec[j][2] # JNull
            /\ lines[i].rec[j][2].kind # "list" =>
                  \E m \in DOMAIN records[i].rec :
                      /\ to_snake_case(records[i].rec[m][1]) = lines[i].rec[j][1]
                      /\ records[i].rec[m][2].kind \in {"scalar", "dict"}

\* C10 (amended): in every written record, in both modes, inside or after
\* the sampling window, a field named in the known list fields is never
\* null: a null became [], a list stayed a list, and only a value that was
\* a scalar or an object in the input is written as something else.
C10_KnownListNeverNull ==
    /\ NeverNull(out_mem, repeated_fields_mem, file.records)
    /\ NeverNull(out_stream, repeated_fields_stream, file.records)

\* a null of an inferred list field, after both sampling windows, was
\* written as [] by both paths
C10_Witness ==
    /\ rpc = "done"
    /\ file.malformed = NoMalformed
    /\ ~file.given
    /\ \E i \in DOMAIN file.records :
          /\ FirstOf(file.records, i) > MEMORY_SAMPLE
          /\ file.records[i].rec = RecItems(JNull)
          /\ ValueAt(out_mem[i].rec, to_snake_case(KeyItems)) = JList(<< >>)
          /\ ValueAt(out_stream[i].rec, to_snake_case(KeyItems)) = JList(<< >>)

\* the keys of the objects nested in the written value are those of the
\* input value, spelled and ordered as in the input; an object written as
\* [] has no key left
RECURSIVE SameNestedKeys(_, _)
SameNestedKeys(in, out) ==
    CASE out.kind = "dict" ->
           /\ in.kind = "dict"
           /\ Len(out.pairs) = Len(in.pairs)
           /\ \A i \in DOMAIN out.pairs :
                 /\ out.pairs[i][1] = in.pairs[i][1]
                 /\ SameNestedKeys(in.pairs[i][2], out.pairs[i][2])
      [] out.kind = "list" ->
           \/ in.kind \in {"dict", "null"} /\ out.items = << >>
           \/ /\ in.kind = "list"
              /\ Len(out.items) = Len(in.items)
              /\ \A i \in DOMAIN out.items : SameNestedKeys(in.items[i], out.items[i])
      [] OTHER -> TRUE

\* the top-level keys of the written record are the snake_case forms of the
\* keys of the input record, and the nested keys are unchanged
CasePreserved(in, out) ==
    /\ \A m \in DOMAIN in : \E j \in DOMAIN out : out[j][1] = to_snake_case(in[m][1])
    /\ \A j \in DOMAIN out :
          \E m \in DOMAIN in :
              /\ out[j][1] = to_snake_case(in[m][1])
              /\ out[j][1] = LowerStr(out[j][1])
              /\ SameNestedKeys(in[m][2], out[j][2])

\* C11: for every input record, each top-level key of the written record is
\* to_snake_case of the input key (camelCase, PascalCase and snake_case keys
\* all give the snake_case name) and every key of every nested object, at any
\* depth and inside arrays, has its input spelling; in both modes.
C11_CasePreservation ==
    /\ to_snake_case(KeyItems) = KeySnake
    /\ to_snake_case(KeyPascal) = KeySnake
    /\ to_snake_case(KeySnake) = KeySnake
    /\ \A i \in DOMAIN out_mem : CasePreserved(file.records[i].rec, out_mem[i].rec)
    /\ \A i \in DOMAIN out_stream : CasePreserved(file.records[i].rec, out_stream[i].rec)

\* a record with camelCase and PascalCase keys two objects deep inside a
\* list was written by both paths, under the snake_case top-level key
C11_Witness ==
    /\ rpc = "done"
    /\ file.malformed = NoMalformed
    /\ \E i \in DOMAIN file.records :
          /\ file.records[i].rec = RecNested
          /\ \E v \in {ValueAt(out_stream[i].rec, KeySnake)} :
                /\ v = ValueAt(out_mem[i].rec, KeySnake)
                /\ v.items[1].pairs[1][1] = KeyItems
                /\ v.items[1].pairs[1][2].pairs[1][1] = KeyPascal
    /\ \E i \in DOMAIN file.records :
          /\ file.records[i].rec = RecItems(ListValue)
          /\ out_mem[i].rec[2][1] = KeySnake

\* field_path.split('.')[-1]
RECURSIVE LastSegment(_)
LastSegment(path) ==
    IF \E i \in DOMAIN path : path[i] = "."
    THEN LastSegment(Tail(path))
    ELSE path

\* every null of the input value is written as [] where the last segment of
\* its path names a known list field and as null elsewhere (paths built as
\* the normaliser builds them: a list keeps the path, an object appends .key)
RECURSIVE NullsNormalised(_, _, _, _)
NullsNormalised(in, out, path, known) ==
    CASE in.kind = "null" ->
           out = IF LastSegment(path) \in known THEN JList(<< >>) ELSE JNull
      [] in.kind = "dict" /\ out.kind = "dict" ->
           \A i \in DOMAIN in.pairs :
               NullsNormalised(in.pairs[i][2], out.pairs[i][2],
                               NestedPath(path, in.pairs[i][1]), known)
      [] in.kind = "list" /\ out.kind = "list" ->
           \A i \in DOMAIN in.items :
               NullsNormalised(in.items[i], out.items[i], path, known)
      [] OTHER -> TRUE

RecordNullsNormalised(in, out, known) ==
    \A m \in DOMAIN in :
        NullsNormalised(in[m][2], ValueAt(out, to_snake_case(in[m][1])),
                        to_snake_case(in[m][1]), known)

\* C12: in every written record a null of the input, at any nesting depth,
\* is written as an empty list when the last segment of its path names a
\* known list field, and as null otherwise.
C12_NullAtKnownListPath ==
    /\ \A i \in DOMAIN out_mem :
          RecordNullsNormalised(file.records[i].rec, out_mem[i].rec, repeated_fields_mem)
    /\ \A i \in DOMAIN out_stream :
          RecordNullsNormalised(file.records[i].rec, out_stream[i].rec,
                                repeated_fields_stream)

\* the data columns of a schema, in schema order
DataNames(schema) ==
    LET d == SelectSeq(schema, LAMBDA f : ~IsEtl(f.name))
    IN  [i \in DOMAIN d |-> d[i].name]

\* the schema ends with campos_etl and has no other bookkeeping column
EtlContract(schema) ==
    /\ Len(schema) >= 2
    /\ SubSeq(schema, Len(schema) - 1, Len(schema)) = campos_etl
    /\ \A i \in 1 .. Len(schema) - 2 : ~IsEtl(schema[i].name)

\* the data columns of `old` are in `new`, in the same relative order
OrderKept(old, new) ==
    SelectSeq(DataNames(new), LAMBDA n : n \in Range(DataNames(old))) = DataNames(old)

\* C13: every existing destination table carries exactly the two
\* bookkeeping columns _etl_synced (TIMESTAMP, REQUIRED) and _etl_operation
\* (STRING, REQUIRED) after all its data columns, and no step removes or
\* reorders a data column of the destination.
C13_DestinationSchemaContract ==
    [][/\ final_table'.exists => EtlContract(final_table'.schema)
       /\ final_table.exists /\ final_table'.exists =>
             OrderKept(final_table.schema, final_table'.schema)]_vars

\* C14: after every endpoint run whose merge step succeeded (first
\* attempt, bulk insert, reactive retry or fallback) the staging table of
\* the endpoint does not exist.
C14_StagingDroppedAfterSuccess ==
    (pc = "done" /\ outcome = "ok") => ~staging_table.exists

\* C15: after every endpoint run whose merge step ended in failure (an
\* error the reactive path does not correct, a refused schema correction, a
\* failed retry or a failed fallback) the staging table exists and holds
\* the rows loaded in this run.
C15_StagingKeptAfterFailure ==
    (pc = "done" /\ outcome = "failed" /\ merge_attempts >= 1) =>
        /\ staging_table.exists
        /\ staging_table.rows = src.rows

\* the fallback failed after the copy had overwritten the destination, and
\* the staging table still holds the loaded rows
C15_Witness ==
    /\ pc = "done" /\ outcome = "failed"
    /\ merge_errs = << "struct" >>
    /\ last_stmt = "copy"
    /\ staging_table.exists
    /\ staging_table.rows = src.rows
    /\ src.rows # {}

\* C16: whenever the merge statement is executed, in either entry point,
\* every top-level column of the staging schema is a column of the
\* destination, and no step makes an existing destination table cease to
\* exist.
C16_NewColumnsAddedBeforeMerge ==
    [][/\ merge_attempts' > merge_attempts =>
             staging_cols(staging_table.schema) \subseteq Names(final_table.schema)
       /\ final_table.exists => final_table'.exists]_vars

\* the scalar types of the model, INTEGER being the narrower
ScalarTypes == {"INTEGER", "STRING"}

\* new is old or a more permissive type
Widens(old, new) == new = old \/ (old = "INTEGER" /\ new = "STRING")

\* every scalar column of both schemas has in `new` its type of `old` or a
\* more permissive one
TypesWiden(old, new) ==
    \A n \in Names(old) \cap Names(new) :
        (FieldOf(old, n).field_type \in ScalarTypes
            /\ FieldOf(new, n).field_type \in ScalarTypes)
        => Widens(FieldOf(old, n).field_type, FieldOf(new, n).field_type)

\* C17: over any sequence of pre-merge alignments and reactive type
\* corrections, the declared scalar type of a destination column is only
\* ever replaced by a more permissive one (INTEGER by STRING), never by a
\* narrower one (STRING by INTEGER).
C17_TypeOnlyWidens ==
    [][(pc \in {"align", "react"} /\ final_table.exists /\ final_table'.exists)
          => TypesWiden(final_table.schema, final_table'.schema)]_vars

C19_CorrectionThenRetry ==
    [][/\ (pc = "react" /\ err.class \in {"struct", "type", "missing"} /\ pc' # "done")
             => pc' = "retry"
       /\ pc = "retry" => (merge_attempts = 1 /\ merge_attempts' = 2 /\ pc' = "done")]_vars

\* C20: the bulk copy of staging over the destination is executed only
\* after the merge retried after the composite-union correction has failed:
\* two executions of the merge, both failed, precede every copy.
C20_CopyOnlyAfterFailedRetry ==
    (pc = "copy" \/ last_stmt = "copy") =>
        (merge_attempts = 2 /\ Len(merge_errs) = 2)

\* C21: a fallback ends as successful only from its last step, and then
\* both bookkeeping columns are on the destination and every destination
\* row has a non-null _etl_synced and a non-null _etl_operation; a fallback
\* whose copy, column re-addition or backfill fails ends as failed.
C21_FallbackStampsEveryRow ==
    [][(pc \in {"copy", "copy_etl", "backfill"} /\ pc' = "done") =>
          IF pc = "backfill" /\ outcome' = "ok"
          THEN /\ MissingEtl(final_table'.schema) = << >>
               /\ \A r \in final_table'.rows : r.synced # 0 /\ r.op # NULL
          ELSE outcome' = "failed"]_vars

\* a fallback reported as successful: the destination holds the rows of
\* staging, stamped by the backfill
C21_Witness ==
    /\ pc = "done" /\ outcome = "ok" /\ last_stmt = "copy"
    /\ merge_errs = << "struct" >>
    /\ Ids(final_table.rows) = Ids(src.rows)
    /\ \A r \in final_table.rows : r.synced = run /\ r.op = "INSERT"
    /\ ~staging_table.exists

\* C22: a run whose first staging load failed with the
\* required-list-field-is-null class or the composite-value-for-non-composite
\* class has made a second load (after the reshaper was run again with the
\* named field) before ending.
C22_ListFieldLoadRetried ==
    (pc = "done" /\ load_errs # << >> /\ load_errs[1] \in {"repeated", "nested"})
        => load_attempts = 2

\* `new` is `current` except that the field n is a NULLABLE STRING, appended
\* when `current` does not have it
WidenedOnly(current, new, n) ==
    /\ \A i \in DOMAIN current : current[i].name # n => new[i] = current[i]
    /\ IF HasField(current, n)
       THEN /\ Len(new) = Len(current)
            /\ \A i \in DOMAIN current :
                  current[i].name = n =>
                      new[i] = SchemaField(n, "STRING", "NULLABLE", << >>)
       ELSE new = Append(current, SchemaField(n, "STRING", "NULLABLE", << >>))

C24_FailedLoadReturnsFirstError ==
    (load_result.returned /\ load_errs # << >>
        /\ (load_errs[1] = "other" \/ Len(load_errs) = 2)) =>
        /\ ~load_result.success
        /\ load_result.error_message = FirstError
        /\ pc = "done" /\ outcome = "failed"
        /\ load_attempts = Len(load_errs)


\* C25: once the wall-clock budget is used up the run ends with the
\* TimeoutError and never with the summary "Fin proceso ETL", and no tenant
\* is being processed that was started with the budget used up.
C25_BudgetEndsRunWithTimeout ==
    /\ (stage = "end" /\ elapsed >= JOB_TIMEOUT_SECONDS) => run_end # "completed"
    /\ (stage \notin {"budget", "end"}) => elapsed < JOB_TIMEOUT_SECONDS


\* ------------------------------------------------------------------------
\* Properties of the tasks of a parallel execution (SpecTasks)
\* ------------------------------------------------------------------------
Sliced == task_count > 1 /\ \A i \in DOMAIN tasks : tasks[i].pc # "query"

SliceSize(i) == tasks[i].end_idx - tasks[i].start_idx

\* C26: for every number of tenants and every task count above one, the
\* ranges [start_idx, end_idx) of the tasks 0 .. task_count - 1 follow one
\* another without gap from 0 to total, every index 0 .. total - 1 lies in
\* exactly one of them, and two ranges differ in size by at most one.
C26_SlicesPartitionTheTenants ==
    Sliced =>
        /\ tasks[0].start_idx = 0
        /\ tasks[task_count - 1].end_idx = total
        /\ \A i \in DOMAIN tasks : tasks[i].start_idx <= tasks[i].end_idx
        /\ \A i \in 1 .. task_count - 1 : tasks[i].start_idx = tasks[i - 1].end_idx
        /\ \A k \in 0 .. total - 1 :
              Cardinality({i \in DOMAIN tasks :
                  tasks[i].start_idx <= k /\ k < tasks[i].end_idx}) = 1
        /\ \A i, j \in DOMAIN tasks : SliceSize(i) - SliceSize(j) <= 1

\* fewer tenants than tasks, with a remainder: some range is empty
C26_Witness ==
    /\ Sliced
    /\ 0 < total /\ total < task_count
    /\ \E i, j \in DOMAIN tasks : SliceSize(i) = 1 /\ SliceSize(j) = 0

C28_ZeroRecordsIsAnError ==
    rpc = "done" =>
        /\ Total(out_mem) = 0 => raised.mem
        /\ Total(out_stream) = 0 => raised.stream

\* C29: in streaming mode, with array framing as with newline-delimited
\* framing, a malformed record is skipped: the streaming path does not
\* raise and writes every well-formed record before and after it.
C29_MalformedRecordSkipped ==
    (rpc = "done" /\ file.malformed # NoMalformed) =>
        /\ ~raised.stream
        /\ out_stream = transformed_items(file.records, repeated_fields_stream)


\* ------------------------------------------------------------------------
\* Re-processing of a pair (Spec)
\* ------------------------------------------------------------------------
\* a pair processed successfully twice in a row from the same file, which
\* the load job accepted both times as it is
Reprocessed ==
    /\ pc = "done" /\ outcome = "ok"
    /\ prev_run.outcome = "ok"
    /\ prev_run.src.schema = src.schema /\ prev_run.src.rows = src.rows
    /\ prev_run.load_errs = << >> /\ load_errs = << >>

\* the rows without their _etl_synced
Unstamped(T) == {[id |-> r.id, data |-> r.data, op |-> r.op] : r \in T}

\* the rows a second MERGE of the same file matches: an INSERT becomes an
\* UPDATE
Matched(T) ==
    {[r EXCEPT !.op = IF @ = "INSERT" THEN "UPDATE" ELSE @] : r \in T}

\* C30 (as claimed): processing a pair again from the same source file
\* leaves the destination with the rows, the data column values and the
\* _etl_operation values the first processing left; only _etl_synced differs.
C30_RestartIdempotent ==
    Reprocessed =>
        Unstamped(final_table.rows) = Unstamped(prev_run.final_table.rows)

\* C30 (amended): processing a pair again from the same source file leaves
\* the destination with the same schema, the same ids and the same data
\* column values; every row is stamped with the second run's _etl_synced,
\* and _etl_operation is kept except that the rows the first processing
\* stamped INSERT are stamped UPDATE by the second.
C30_RestartKeepsData ==
    Reprocessed =>
        /\ Cardinality(final_table.rows) = Cardinality(prev_run.final_table.rows)
        /\ Unstamped(final_table.rows) = Matched(Unstamped(prev_run.final_table.rows))
        /\ \A r \in final_table.rows : r.synced = run

\* the first processing inserted a row and soft-deleted another; after the
\* second the inserted row is an UPDATE and the other is still a DELETE
C30_Witness ==
    /\ Reprocessed
    /\ \E r \in prev_run.final_table.rows : r.op = "INSERT"
    /\ \E r \in final_table.rows : r.op = "UPDATE"
    /\ \E r \in final_table.rows : r.op = "DELETE"


\* C31: after any sequence of upserts, by the bulk INSERT of a first load
\* or by the MERGE, the destination holds at most one row per id, also when
\* the staging snapshot has several records with the same id.
C31_OneRowPerId ==
    \A i \in Ids(final_table.rows) : Cardinality(RowsOf(final_table.rows, i)) <= 1


\* ------------------------------------------------------------------------
\* Properties of fix_json_format on the text of a file (SpecDecode)
\* ------------------------------------------------------------------------
\* C32 (as claimed): the in-memory path is taken exactly when the size is
\* strictly below 100 MB, the streaming path at 100 MB and above.
C32_StreamingAtThreshold ==
    dec.path # "none" =>
        (dec.path = "memory" <=> dec.size < LARGE_FILE_THRESHOLD_MB * 1024 * 1024)

\* C32 (amended): the in-memory path is taken exactly when the size is at
\* most 100 MB (104857600 bytes), the streaming path only above 100 MB.
C32_StreamingAboveThreshold ==
    dec.path # "none" =>
        /\ dec.path = "memory" <=> dec.size <= LARGE_FILE_THRESHOLD_MB * 1024 * 1024
        /\ dec.path = "streaming" <=> dec.size > LARGE_FILE_THRESHOLD_MB * 1024 * 1024

\* a file of exactly 100 MB went through the in-memory path
C32_Witness ==
    /\ dec.pc = "done"
    /\ dec.size = LARGE_FILE_THRESHOLD_MB * 1024 * 1024
    /\ dec.path = "memory"
    /\ dec.framing.mem # "none"

\* C33: the in-memory path, the streaming sampler and the streaming decoder
\* decide the framing by the first character that is not white space: array
\* framing when it is "[", also after spaces or newlines, newline-delimited
\* otherwise.
C33_FramingByFirstNonWhitespace ==
    \A site \in {"mem", "sample", "stream"} :
        dec.framing[site] # "none" =>
            dec.framing[site] = first_char_framing(lstrip(dec.text))

\* C34: in streaming array mode, wherever the chunk boundaries fall, every
\* top-level object of a well-formed file is written exactly once and in
\* input order when the loop has ended.
C34_EveryObjectWrittenOnce ==
    (dec.pc = "done" /\ dec.framing.stream = "array") =>
        dec.items = SubSeq(ObjectIds, 1, dec.objects)


\* ------------------------------------------------------------------------
\* The pre-merge alignment of the single-tenant script (Spec)
\* ------------------------------------------------------------------------
\* C35: when align_schemas_before_merge has corrected two or more columns
\* and returns without an error, the destination schema has staging's type
\* for every column of corrections_made.
C35_AllCorrectionsKept ==
    (pc = "exec" /\ ~align_result.error /\ Len(align_result.corrections_made) >= 2) =>
        \A j \in DOMAIN align_result.corrections_made :
            FieldOf(final_table.schema, align_result.corrections_made[j]).field_type =
                FieldOf(staging_table.schema, align_result.corrections_made[j]).field_type


\* ------------------------------------------------------------------------
\* The destination table of an endpoint whose iteration fails early (Spec)
\* ------------------------------------------------------------------------
\* C36: the destination table is created or changed (schema or rows) only
\* by a step taken after the staging load of the same iteration has
\* succeeded; an iteration whose download, reshape or load fails leaves it
\* exactly as it was.
DestinationChanged == final_table' # final_table

C36_DestinationOnlyAfterLoad ==
    [][DestinationChanged => (load_result.success /\ load_result' = load_result)]_vars

\* an iteration that follows a successful one ends on a failed load with the
\* destination as the successful one left it
C36_Witness ==
    /\ pc = "done" /\ outcome = "failed"
    /\ load_result.returned /\ ~load_result.success
    /\ prev_run.outcome = "ok"
    /\ prev_run.final_table.rows # {}
    /\ final_table = prev_run.final_table


\* ------------------------------------------------------------------------
\* The top-level fields of a transformed record (SpecReshape)
\* ------------------------------------------------------------------------
\* every written record has as many keys as the input record it was made of
NoFieldLost(lines, records) ==
    \A i \in DOMAIN lines : Len(lines[i].rec) = Len(records[i].rec)

\* C37: transform_item loses no top-level field: the written record has as
\* many keys as the input record, also when two distinct input keys have
\* the same snake_case form; in both modes.
C37_NoTopLevelFieldLost ==
    (rpc = "done" /\ file.malformed = NoMalformed) =>
        /\ NoFieldLost(out_mem, file.records)
        /\ NoFieldLost(out_stream, file.records)


\* ------------------------------------------------------------------------
\* The audit write of a failed endpoint (SpecLoop)
\* ------------------------------------------------------------------------
\* an except-branch of the body printed the failure and called log_event_bq
AuditWriteStep == logged' # logged

\* the endpoint loop goes on as after a `continue`
LoopContinues ==
    /\ tenant' = tenant
    /\ exc' = exc
    /\ IF endpoint < NEndpoints
       THEN stage' = "download" /\ endpoint' = endpoint + 1
       ELSE stage' = "returned" /\ endpoint' = endpoint

\* C38: log_event_bq never propagates an exception: after an audit write,
\* failed or not, the endpoint loop goes on with the next endpoint exactly as
\* after a successful write, and the write leaves the warehouse tables alone.
C38_AuditNeverChangesFlow ==
    [][AuditWriteStep =>
          /\ LoopContinues
          /\ staging_table' = staging_table
          /\ final_table' = final_table]_vars

\* the audit write of a failed endpoint went wrong and the loop is at the
\* next endpoint of the same tenant
C38_Witness ==
    /\ stage = "download"
    /\ endpoint > 1
    /\ << tenant, endpoint - 1 >> \in audit.faults
    /\ << tenant, endpoint - 1 >> \in logged
    /\ exc = "none"

====
